---- MODULE Spec2Model ----
(***************************************************************************)
(* Trust Atlas: the aggregation and confidence engine                      *)
(* (etl/pipelines/aggregate_pillars.py, aggregate_survey.py,               *)
(* aggregate_media.py) and the data quality sweep (etl/data_quality).      *)
(*                                                                         *)
(* Numbers.  Observation scores are held in hundredths of a point          *)
(* ("centipoints", 0..10000).  Everything the aggregation computes from    *)
(* them is held in "fine" units of 1/12000 of a point, the least unit in   *)
(* which every effective media weight nominal/available (weights 0.4, 0.4, *)
(* 0.2) times a centipoint score is an integer; the arithmetic is exact,   *)
(* the floating-point error of the Python code is not modelled.  A stored  *)
(* pillar score is round(x, 1), held in tenths of a point.                 *)
(* A nullable column is a set: {} is NULL and {v} holds v.                 *)
(***************************************************************************)
EXTENDS Integers, Sequences, FiniteSets, TLC

VARIABLES
    corpus,     \* table observations: the rows in physical (heap) order
    table,      \* table country_year, committed: <<iso3, year>> -> row
    clock,      \* wall clock in half years; CURRENT_YEAR and NOW() read it
    pc,         \* per aggregation run: "idle", "writing", "done"
    job,        \* per run: [pillar, dry_run] of the call in progress
    results,    \* per run: the list `results` built from the rows read
    nextIdx,    \* per run: position of the write loop in `results`
    txn,        \* per run: rows upserted and not yet committed (locks held)
    stats,      \* per run: the statistics dict returned
    outcome,    \* per run: how the last call ended
    snapshot,   \* per run: the corpus as read by the call's SELECT
    tableAtStart,   \* per run: the committed table when the call began
    lastCommitted,  \* per pillar: the reference year of the last committed
                    \* run, NULL once the corpus changed after that run read it
    flagStore,  \* table data_quality_flags, committed:
                \* <<observation_id, flag_type>> -> row
    sweep,      \* the quality sweep process: its position and locals
    ingest      \* the last ingestion: its entry point, batch and outcome

vars == <<corpus, table, clock, pc, job, results, nextIdx, txn, stats,
          outcome, snapshot, tableAtStart, lastCommitted, flagStore, sweep,
          ingest>>

\* What an aggregation run or a load leaves alone, and what a sweep does.
sweepVars == <<flagStore, sweep, ingest>>

\* The aggregation processes: main() of the aggregator may be started
\* while another one runs.
RunIds == {1, 2}

aggVars == <<table, pc, job, results, nextIdx, txn, stats, outcome, snapshot,
             tableAtStart, lastCommitted>>

-----------------------------------------------------------------------------
(* Generic helpers *)

Null == {}

Some(v) == {v}

The(s) == CHOOSE x \in s : TRUE

Max(a, b) == IF a >= b THEN a ELSE b

Min(a, b) == IF a <= b THEN a ELSE b

Range(f) == {f[x] : x \in DOMAIN f}

RECURSIVE SumSeq(_)
SumSeq(s) == IF s = << >> THEN 0 ELSE Head(s) + SumSeq(Tail(s))

\* Position of x in the sequence s (0 when absent).
IndexOf(s, x) == IF \E i \in 1..Len(s) : s[i] = x
                 THEN CHOOSE i \in 1..Len(s) : s[i] = x
                 ELSE 0

-----------------------------------------------------------------------------
(* Configuration: aggregate_pillars.py, module level *)

\* CURRENT_YEAR = datetime.now().year; the clock counts half years from the
\* start of BaseYear.
BaseYear == 2025

CurrentYear(clk) == BaseYear + (clk \div 2)

\* MEDIA_WEIGHTS, in tenths.
MEDIA_WEIGHTS == [Reuters_DNR |-> 4, Eurobarometer |-> 4, WVS |-> 2]

\* MEDIA_WEIGHTS.get(src, 0)
MediaWeight(src) == IF src \in DOMAIN MEDIA_WEIGHTS THEN MEDIA_WEIGHTS[src] ELSE 0

\* SURVEY_SOURCE_PRIORITY (lower = higher priority)
SURVEY_SOURCE_PRIORITY ==
    [s \in {"WVS", "EVS", "GSS", "ANES", "CES", "Afrobarometer",
            "Arab Barometer", "Asian Barometer", "Latinobarometro",
            "CaucasusBarometer", "LAPOP", "LiTS"} |->
        CASE s = "WVS" -> 1
          [] s = "EVS" -> 2
          [] s \in {"GSS", "ANES", "CES"} -> 3
          [] s \in {"Afrobarometer", "Arab Barometer", "Asian Barometer",
                    "Latinobarometro"} -> 4
          [] OTHER -> 5]

\* SURVEY_SOURCE_PRIORITY.get(source, 10)
SurveyPriority(source) ==
    IF source \in DOMAIN SURVEY_SOURCE_PRIORITY
    THEN SURVEY_SOURCE_PRIORITY[source] ELSE 10

EXCLUDED_SURVEY_SOURCES == {"ESS", "OECD", "EU-SILC"}

SurveyPillars == {"interpersonal", "institutional"}

Pillars == {"interpersonal", "institutional", "media", "governance"}

-----------------------------------------------------------------------------
(* The orders the SQL ORDER BY clauses use.  Text is compared by code      *)
(* point; the sources and countries of the model are listed ascending.     *)

SourceNames == <<"ANES", "Afrobarometer", "CPI", "ESS", "EVS",
                 "Eurobarometer", "GSS", "LiTS", "Reuters_DNR", "WGI", "WVS">>

IsoNames == <<"XAA", "XBB">>

SourceOrd(s) == IndexOf(SourceNames, s)

IsoOrd(c) == IndexOf(IsoNames, c)

-----------------------------------------------------------------------------
(* Reading the corpus *)

\* An observation row: [iso3, year, source, trust_type, score_0_100] with
\* score_0_100 nullable, in centipoints.  float(score), in fine units:
Float(score) == score * 120

\* The order without its last sort column (ORDER BY iso3, year [DESC]).
RowBeforeNoSource(a, b, yearDesc) ==
    \/ IsoOrd(a.iso3) < IsoOrd(b.iso3)
    \/ /\ a.iso3 = b.iso3
       /\ IF yearDesc THEN a.year > b.year ELSE a.year < b.year

\* ORDER BY iso3, year [DESC], source: whether row a sorts before row b.
RowBefore(a, b, yearDesc) ==
    \/ IsoOrd(a.iso3) < IsoOrd(b.iso3)
    \/ /\ a.iso3 = b.iso3
       /\ IF yearDesc THEN a.year > b.year ELSE a.year < b.year
    \/ /\ a.iso3 = b.iso3
       /\ a.year = b.year
       /\ SourceOrd(a.source) < SourceOrd(b.source)

\* Insert row r into the sorted list s after every row that does not sort
\* after it (rows the ORDER BY does not separate keep their heap order).
RECURSIVE InsertRow(_, _, _)
InsertRow(s, r, yearDesc) ==
    IF s = << >> THEN <<r>>
    ELSE IF RowBefore(r, Head(s), yearDesc) THEN <<r>> \o s
    ELSE <<Head(s)>> \o InsertRow(Tail(s), r, yearDesc)

RECURSIVE OrderRows(_, _)
OrderRows(s, yearDesc) ==
    IF s = << >> THEN << >>
    ELSE InsertRow(OrderRows(SubSeq(s, 1, Len(s) - 1), yearDesc),
                   s[Len(s)], yearDesc)

\* The WHERE clause without `source NOT IN EXCLUDED_SURVEY_SOURCES`.
SurveyEligibleAnySource(o, pillar) ==
    /\ o.trust_type = pillar
    /\ o.score_0_100 # Null

\* SELECT iso3, year, source, score_0_100, sample_n FROM observations
\* WHERE trust_type = pillar AND score_0_100 IS NOT NULL
\*   AND source NOT IN EXCLUDED_SURVEY_SOURCES
\* ORDER BY iso3, year DESC, source
SurveyEligible(o, pillar) ==
    /\ o.trust_type = pillar
    /\ o.score_0_100 # Null
    /\ o.source \notin EXCLUDED_SURVEY_SOURCES

\* A SELECT that leaves out the observations with a row in data_quality_flags.
SelectSurveyRowsUnflagged(corp, pillar) ==
    LET ids == SelectSeq([i \in 1..Len(corp) |-> i],
                         LAMBDA i : /\ SurveyEligible(corp[i], pillar)
                                    /\ \A k \in DOMAIN flagStore : k[1] # i)
    IN  OrderRows([k \in 1..Len(ids) |-> corp[ids[k]]], TRUE)

SelectSurveyRows(corp, pillar) ==
    OrderRows(SelectSeq(corp, LAMBDA o : SurveyEligible(o, pillar)), TRUE)

\* SELECT iso3, year, source, score_0_100 FROM observations
\* WHERE trust_type = 'media' AND score_0_100 IS NOT NULL
\* ORDER BY iso3, year, source
MediaEligible(o) ==
    /\ o.trust_type = "media"
    /\ o.score_0_100 # Null

SelectMediaRows(corp) ==
    OrderRows(SelectSeq(corp, LAMBDA o : MediaEligible(o)), FALSE)

-----------------------------------------------------------------------------
(* Confidence tiers and intervals *)

\* One ladder for every ranked source (the barometers as the rank 1-3 ones).
get_survey_confidence_tier_one_ladder(source, data_age) ==
    IF SurveyPriority(source) <= 5
    THEN IF data_age <= 3 THEN "A"
         ELSE IF data_age <= 5 THEN "B"
         ELSE "C"
    ELSE "C"

\* A classifier that gives C to data dated after the reference year.
get_survey_confidence_tier_no_future(source, data_age) ==
    IF data_age < 0 THEN "C"
    ELSE IF SurveyPriority(source) <= 3
    THEN IF data_age <= 3 THEN "A"
         ELSE IF data_age <= 5 THEN "B"
         ELSE "C"
    ELSE IF SurveyPriority(source) <= 5
    THEN IF data_age <= 3 THEN "B" ELSE "C"
    ELSE "C"

\* get_survey_confidence_tier(source, data_age)
get_survey_confidence_tier(source, data_age) ==
    LET priority == SurveyPriority(source)
    IN  IF priority <= 3
        THEN IF data_age <= 3 THEN "A"
             ELSE IF data_age <= 5 THEN "B"
             ELSE "C"
        ELSE IF priority <= 5
        THEN IF data_age <= 3 THEN "B" ELSE "C"
        ELSE "C"

\* The media rule without its WVS clause.
get_media_confidence_tier_annual_only(sources, latest_year, current_year) ==
    LET age == current_year - latest_year
        has_annual == \E i \in 1..Len(sources) :
                          sources[i] \in {"Reuters_DNR", "Eurobarometer"}
    IN  IF has_annual /\ age <= 1 THEN "A"
        ELSE IF has_annual /\ age <= 2 THEN "B"
        ELSE "C"

\* get_media_confidence_tier(sources, latest_year), CURRENT_YEAR passed in
get_media_confidence_tier(sources, latest_year, current_year) ==
    LET age == current_year - latest_year
        annual_sources == {"Reuters_DNR", "Eurobarometer"}
        has_annual == \E i \in 1..Len(sources) : sources[i] \in annual_sources
        has_wvs == \E i \in 1..Len(sources) : sources[i] = "WVS"
    IN  IF has_annual /\ age <= 1 THEN "A"
        ELSE IF (has_annual /\ age <= 2) \/ (has_wvs /\ age <= 3) THEN "B"
        ELSE "C"

\* {"A": 5, "B": 10, "C": 15}.get(tier, 15), in points
Margin(tier) == IF tier = "A" THEN 5 ELSE IF tier = "B" THEN 10 ELSE 15

\* The bounds without max(0, .) and min(100, .).
get_ci_bounds_unclamped(tier, score) ==
    <<score - Margin(tier) * 12000, score + Margin(tier) * 12000>>

\* get_ci_bounds(tier, score): score and bounds in fine units
get_ci_bounds(tier, score) ==
    <<Max(0, score - Margin(tier) * 12000),
      Min(100 * 12000, score + Margin(tier) * 12000)>>

\* round(x, 1): x in fine units, the result in tenths of a point; a value
\* exactly half way goes to the even tenth.
Round1(x) ==
    LET q == x \div 1200
        r == x % 1200
    IN  IF r < 600 THEN q
        ELSE IF r > 600 THEN q + 1
        ELSE IF q % 2 = 0 THEN q ELSE q + 1

-----------------------------------------------------------------------------
(* Survey pillar resolver: aggregate_survey_pillar, lines 165-202 *)

\* The test with the comparison turned round.
OutranksInverted(priority, existing_priority) == priority > existing_priority

\* The test that lets a later row replace the entry kept so far.
Outranks(priority, existing_priority) == priority < existing_priority

\* The dict country_years as the list of its entries in insertion order;
\* an entry is [iso3, year, source, score] (sample_n is never read again).
DictIndex(cy, iso3, year) ==
    IF \E i \in 1..Len(cy) : cy[i].iso3 = iso3 /\ cy[i].year = year
    THEN CHOOSE i \in 1..Len(cy) : cy[i].iso3 = iso3 /\ cy[i].year = year
    ELSE 0

\* One pass of `for iso3, year, source, score, sample_n in rows`.
ResolveStep(cy, row) ==
    LET i == DictIndex(cy, row.iso3, row.year)
        entry == [iso3 |-> row.iso3, year |-> row.year, source |-> row.source,
                  score |-> Float(The(row.score_0_100))]
    IN  IF i = 0 THEN Append(cy, entry)
        ELSE IF Outranks(SurveyPriority(row.source), SurveyPriority(cy[i].source))
             THEN [cy EXCEPT ![i] = entry]
             ELSE cy

RECURSIVE ResolveRows(_, _)
ResolveRows(cy, rows) ==
    IF rows = << >> THEN cy
    ELSE ResolveRows(ResolveStep(cy, Head(rows)), Tail(rows))

\* One element of `results`.  Both pillars' results share one shape: the
\* survey result's "source" is the one-element list its upsert writes.
SurveyResult(e, current_year) ==
    LET tier == get_survey_confidence_tier(e.source, current_year - e.year)
        ci   == get_ci_bounds(tier, e.score)
    IN  [iso3 |-> e.iso3, year |-> e.year, score |-> Round1(e.score),
         sources |-> <<e.source>>, tier |-> tier,
         ci_lower |-> ci[1], ci_upper |-> ci[2]]

SurveyResults(rows, current_year) ==
    LET cy == ResolveRows(<< >>, rows)
    IN  [i \in 1..Len(cy) |-> SurveyResult(cy[i], current_year)]

-----------------------------------------------------------------------------
(* Media weighted aggregator: aggregate_media_pillar, lines 274-321 *)

\* country_years[(iso3, year)][source].append(float(score)): the dict of
\* dicts of lists as a list of [iso3, year, srcs, scores] in insertion
\* order, srcs the inner dict's keys in insertion order and scores[k] the
\* list of the k-th source.
GroupStep(cy, row) ==
    LET i == DictIndex(cy, row.iso3, row.year)
        v == Float(The(row.score_0_100))
    IN  IF i = 0
        THEN Append(cy, [iso3 |-> row.iso3, year |-> row.year,
                         srcs |-> <<row.source>>, scores |-> <<(<<v>>)>>])
        ELSE LET k == IndexOf(cy[i].srcs, row.source)
             IN  IF k = 0
                 THEN [cy EXCEPT ![i].srcs = Append(@, row.source),
                                 ![i].scores = Append(@, <<v>>)]
                 ELSE [cy EXCEPT ![i].scores[k] = Append(@, v)]

RECURSIVE GroupRows(_, _)
GroupRows(cy, rows) ==
    IF rows = << >> THEN cy
    ELSE GroupRows(GroupStep(cy, Head(rows)), Tail(rows))

\* sum(scores) / len(scores).  The unique key (iso3, year, source,
\* trust_type) leaves one score per list, so the division is exact.
Mean(scores) == SumSeq(scores) \div Len(scores)

\* available_weight = sum(MEDIA_WEIGHTS.get(src, 0) for src in source_scores)
AvailableWeight(srcs) == SumSeq([k \in 1..Len(srcs) |-> MediaWeight(srcs[k])])

\* Number of sources of the list that carry a nominal weight.
WeightedCount(srcs) ==
    Cardinality({k \in 1..Len(srcs) : MediaWeight(srcs[k]) > 0})

\* Equal shares for the weighted sources present, whatever their weights.
EffectiveWeightEqualSplit(src, srcs) ==
    IF MediaWeight(src) > 0 THEN 120 \div WeightedCount(srcs) ELSE 0

\* MEDIA_WEIGHTS.get(src, 0) / available_weight, in 1/120: every value of
\* available_weight (2, 4, 6, 8, 10 tenths) divides 120 * nominal.
EffectiveWeight(src, srcs) ==
    (MediaWeight(src) * 120) \div AvailableWeight(srcs)

\* weighted_sum = sum(score * (weight / available_weight) ...): a mean is
\* 120 times a whole number of centipoints and the weight is in 1/120, so
\* the division is exact.
WeightedSum(g) ==
    SumSeq([k \in 1..Len(g.srcs) |->
              (Mean(g.scores[k]) * EffectiveWeight(g.srcs[k], g.srcs)) \div 120])

MediaResult(g, current_year) ==
    LET weighted_sum == WeightedSum(g)
        tier == get_media_confidence_tier(g.srcs, g.year, current_year)
        ci   == get_ci_bounds(tier, weighted_sum)
    IN  [iso3 |-> g.iso3, year |-> g.year, score |-> Round1(weighted_sum),
         sources |-> g.srcs, tier |-> tier,
         ci_lower |-> ci[1], ci_upper |-> ci[2]]

\* `if available_weight == 0: continue`
MediaResults(rows, current_year) ==
    LET cy   == GroupRows(<< >>, rows)
        kept == SelectSeq(cy, LAMBDA g : AvailableWeight(g.srcs) # 0)
    IN  [i \in 1..Len(kept) |-> MediaResult(kept[i], current_year)]

-----------------------------------------------------------------------------
(* The standalone entry points: aggregate_survey.py and aggregate_media.py, *)
(* each with its own constants, classifier and interval function.           *)

\* SOURCE_PRIORITY of aggregate_survey.py: the ranks of
\* SURVEY_SOURCE_PRIORITY and rank 6 for the different-scale sources.
SOURCE_PRIORITY ==
    [s \in {"WVS", "EVS", "GSS", "ANES", "CES", "Afrobarometer",
            "Arab Barometer", "Asian Barometer", "Latinobarometro",
            "CaucasusBarometer", "LAPOP", "LiTS", "ESS", "OECD",
            "EU-SILC"} |->
        CASE s = "WVS" -> 1
          [] s = "EVS" -> 2
          [] s \in {"GSS", "ANES", "CES"} -> 3
          [] s \in {"Afrobarometer", "Arab Barometer", "Asian Barometer",
                    "Latinobarometro"} -> 4
          [] s \in {"CaucasusBarometer", "LAPOP", "LiTS"} -> 5
          [] OTHER -> 6]

\* SOURCE_PRIORITY.get(source, 10)
SourcePriority(source) ==
    IF source \in DOMAIN SOURCE_PRIORITY THEN SOURCE_PRIORITY[source] ELSE 10

\* get_confidence_tier(source, data_age) of aggregate_survey.py
get_confidence_tier(source, data_age) ==
    LET priority == SourcePriority(source)
    IN  IF priority <= 3
        THEN IF data_age <= 3 THEN "A"
             ELSE IF data_age <= 5 THEN "B"
             ELSE "C"
        ELSE IF priority <= 5
        THEN IF data_age <= 3 THEN "B" ELSE "C"
        ELSE "C"

\* get_ci_bounds(tier, score) of aggregate_survey.py, in fine units.
survey_get_ci_bounds(tier, score) ==
    LET margin == IF tier = "A" THEN 5 ELSE IF tier = "B" THEN 10 ELSE 15
    IN  <<Max(0, score - margin * 12000),
          Min(100 * 12000, score + margin * 12000)>>

\* The SELECT of aggregate_survey_observations without its
\* `source NOT IN ('ESS', 'OECD', 'EU-SILC')`.
SelectSurveyObservationsAnySource(corp, pillar) ==
    OrderRows(SelectSeq(corp, LAMBDA o : /\ o.trust_type = pillar
                                        /\ o.score_0_100 # Null), TRUE)

\* SELECT ... WHERE trust_type = %s AND score_0_100 IS NOT NULL
\*   AND source NOT IN ('ESS', 'OECD', 'EU-SILC')
\* ORDER BY iso3, year DESC, source
SelectSurveyObservations(corp, pillar) ==
    OrderRows(SelectSeq(corp,
                  LAMBDA o : /\ o.trust_type = pillar
                             /\ o.score_0_100 # Null
                             /\ o.source \notin {"ESS", "OECD", "EU-SILC"}),
              TRUE)

\* One pass of `for iso3, year, source, score, sample_n in rows` of
\* aggregate_survey_observations.
SelectBestStep(cy, row) ==
    LET i == DictIndex(cy, row.iso3, row.year)
        entry == [iso3 |-> row.iso3, year |-> row.year, source |-> row.source,
                  score |-> Float(The(row.score_0_100))]
    IN  IF i = 0 THEN Append(cy, entry)
        ELSE IF SourcePriority(row.source) < SourcePriority(cy[i].source)
             THEN [cy EXCEPT ![i] = entry]
             ELSE cy

RECURSIVE SelectBest(_, _)
SelectBest(cy, rows) ==
    IF rows = << >> THEN cy
    ELSE SelectBest(SelectBestStep(cy, Head(rows)), Tail(rows))

\* `results` of aggregate_survey_observations.
SurveyObservationResults(rows, current_year) ==
    LET cy == SelectBest(<< >>, rows)
    IN  [i \in 1..Len(cy) |->
            LET tier == get_confidence_tier(cy[i].source,
                                            current_year - cy[i].year)
                ci   == survey_get_ci_bounds(tier, cy[i].score)
            IN  [iso3 |-> cy[i].iso3, year |-> cy[i].year,
                 score |-> Round1(cy[i].score),
                 sources |-> <<cy[i].source>>, tier |-> tier,
                 ci_lower |-> ci[1], ci_upper |-> ci[2]]]

\* MEDIA_WEIGHTS of aggregate_media.py, in tenths.
MEDIA_WEIGHTS_MEDIA == [Reuters_DNR |-> 4, Eurobarometer |-> 4, WVS |-> 2]

\* ANNUAL_SOURCES of aggregate_media.py
ANNUAL_SOURCES == {"Reuters_DNR", "Eurobarometer"}

\* compute_media_confidence_tier(sources, latest_year, current_year)
compute_media_confidence_tier(sources, latest_year, current_year) ==
    LET age == current_year - latest_year
        has_annual == \E i \in 1..Len(sources) : sources[i] \in ANNUAL_SOURCES
    IN  IF has_annual /\ age <= 1 THEN "A"
        ELSE IF \/ has_annual /\ age <= 2
                \/ (\E i \in 1..Len(sources) : sources[i] = "WVS") /\ age <= 3
        THEN "B"
        ELSE "C"

\* compute_confidence_interval(score, tier), in fine units.
compute_confidence_interval(score, tier) ==
    LET margin == CASE tier = "A" -> 5 [] tier = "B" -> 10
                    [] tier = "C" -> 15 [] OTHER -> 15
    IN  <<Max(0, score - margin * 12000),
          Min(100 * 12000, score + margin * 12000)>>

\* MEDIA_WEIGHTS.get(src, 0) of aggregate_media.py
MediaWeightOf(src) ==
    IF src \in DOMAIN MEDIA_WEIGHTS_MEDIA THEN MEDIA_WEIGHTS_MEDIA[src] ELSE 0

\* `results` of aggregate_media_observations: the groups of the rows, the
\* weighted average over the weight available, tier, interval, sources.
MediaObservationResults(rows, current_year) ==
    LET cy    == GroupRows(<< >>, rows)
        avail(g) == SumSeq([k \in 1..Len(g.srcs) |-> MediaWeightOf(g.srcs[k])])
        kept  == SelectSeq(cy, LAMBDA g : avail(g) # 0)
    IN  [i \in 1..Len(kept) |->
            LET g == kept[i]
                weighted_sum ==
                    SumSeq([k \in 1..Len(g.srcs) |->
                        (Mean(g.scores[k])
                           * ((MediaWeightOf(g.srcs[k]) * 120) \div avail(g)))
                        \div 120])
                tier == compute_media_confidence_tier(g.srcs, g.year,
                                                      current_year)
                ci   == compute_confidence_interval(weighted_sum, tier)
            IN  [iso3 |-> g.iso3, year |-> g.year,
                 score |-> Round1(weighted_sum), sources |-> g.srcs,
                 tier |-> tier, ci_lower |-> ci[1], ci_upper |-> ci[2]]]

-----------------------------------------------------------------------------
(* The statistics dict *)

\* tier_counts[tier] += 1 for every result
TierCounts(res) ==
    [t \in {"A", "B", "C"} |->
        Cardinality({i \in 1..Len(res) : res[i].tier = t})]

\* source_counts[src] += 1 for every source of every result
SourceCounts(res) ==
    LET used == UNION {Range(res[i].sources) : i \in 1..Len(res)}
    IN  [s \in used |->
            Cardinality({i \in 1..Len(res) : s \in Range(res[i].sources)})]

Stats(countries, res) ==
    [countries_processed |-> Cardinality(countries),
     country_years_updated |-> Len(res),
     source_counts |-> SourceCounts(res),
     tier_counts |-> TierCounts(res)]

\* `if not rows: return {...}` of aggregate_survey_pillar
EmptyStats == [countries_processed |-> 0, country_years_updated |-> 0]

-----------------------------------------------------------------------------
(* Table country_year and the upsert statement *)

\* A row: per pillar the nullable columns <pillar> (tenths),
\* <pillar>_confidence_tier, <pillar>_ci_lower, <pillar>_ci_upper (fine
\* units), the nullable JSON object sources_used (pillar -> list of
\* sources) and computed_at.
NullColumns == [p \in Pillars |-> Null]

\* A concatenation that appends the lists of a key present on both sides.
JsonConcatAppending(a, b) ==
    [k \in DOMAIN a \cup DOMAIN b |->
        IF k \in DOMAIN a /\ k \in DOMAIN b THEN a[k] \o b[k]
        ELSE IF k \in DOMAIN b THEN b[k] ELSE a[k]]

\* jsonb a || b: the keys of b replace those of a.
JsonConcat(a, b) ==
    [k \in DOMAIN a \cup DOMAIN b |-> IF k \in DOMAIN b THEN b[k] ELSE a[k]]

\* COALESCE(country_year.sources_used, '{}'::jsonb)
CoalesceJson(j) == IF j = Null THEN << >> ELSE The(j)

\* Json({pillar: sources})
JsonOf(pillar, sources) == [k \in {pillar} |-> sources]

\* INSERT INTO country_year (iso3, year, <pillar columns>, sources_used,
\* computed_at) VALUES (...): the row inserted when none conflicts.
InsertedRow(pillar, r, now) ==
    [score        |-> [NullColumns EXCEPT ![pillar] = Some(r.score)],
     tier         |-> [NullColumns EXCEPT ![pillar] = Some(r.tier)],
     ci_lower     |-> [NullColumns EXCEPT ![pillar] = Some(r.ci_lower)],
     ci_upper     |-> [NullColumns EXCEPT ![pillar] = Some(r.ci_upper)],
     sources_used |-> Some(JsonOf(pillar, r.sources)),
     computed_at  |-> now]

\* ON CONFLICT (iso3, year) DO NOTHING.
UpdatedRowDoNothing(old, pillar, r, now) == old

\* DO UPDATE SET <pillar> = EXCLUDED.<pillar>, computed_at = NOW() alone.
UpdatedRowScoreOnly(old, pillar, r, now) ==
    [old EXCEPT !.score[pillar] = Some(r.score), !.computed_at = now]

\* DO UPDATE SET sources_used = EXCLUDED.sources_used: the map is replaced.
UpdatedRowReplacingSources(old, pillar, r, now) ==
    [score        |-> [old.score EXCEPT ![pillar] = Some(r.score)],
     tier         |-> [old.tier EXCEPT ![pillar] = Some(r.tier)],
     ci_lower     |-> [old.ci_lower EXCEPT ![pillar] = Some(r.ci_lower)],
     ci_upper     |-> [old.ci_upper EXCEPT ![pillar] = Some(r.ci_upper)],
     sources_used |-> Some(JsonOf(pillar, r.sources)),
     computed_at  |-> now]

\* ON CONFLICT (iso3, year) DO UPDATE SET ...: the row that replaces old.
UpdatedRow(old, pillar, r, now) ==
    [score        |-> [old.score EXCEPT ![pillar] = Some(r.score)],
     tier         |-> [old.tier EXCEPT ![pillar] = Some(r.tier)],
     ci_lower     |-> [old.ci_lower EXCEPT ![pillar] = Some(r.ci_lower)],
     ci_upper     |-> [old.ci_upper EXCEPT ![pillar] = Some(r.ci_upper)],
     sources_used |-> Some(JsonConcat(CoalesceJson(old.sources_used),
                                      JsonOf(pillar, r.sources))),
     computed_at  |-> now]

\* The upsert of aggregate_media_observations: on a conflict sources_used
\* is COALESCE(old, '{}') || jsonb_build_object('media', sources); the
\* upsert of aggregate_survey_observations has the text of UpdatedRow.
UpdatedRowStandalone(old, pillar, r, now) ==
    [score        |-> [old.score EXCEPT ![pillar] = Some(r.score)],
     tier         |-> [old.tier EXCEPT ![pillar] = Some(r.tier)],
     ci_lower     |-> [old.ci_lower EXCEPT ![pillar] = Some(r.ci_lower)],
     ci_upper     |-> [old.ci_upper EXCEPT ![pillar] = Some(r.ci_upper)],
     sources_used |->
         IF pillar = "media"
         THEN Some(JsonConcat(CoalesceJson(old.sources_used),
                              [k \in {"media"} |-> r.sources]))
         ELSE Some(JsonConcat(CoalesceJson(old.sources_used),
                              JsonOf(pillar, r.sources))),
     computed_at  |-> now]

\* The row the statement leaves at (r.iso3, r.year), given the version of
\* the table the statement sees.
UpsertRow(seen, pillar, r, now) ==
    LET key == <<r.iso3, r.year>>
    IN  IF key \in DOMAIN seen
        THEN UpdatedRow(seen[key], pillar, r, now)
        ELSE InsertedRow(pillar, r, now)

\* The row a statement of a standalone entry point leaves.
UpsertRowStandalone(seen, pillar, r, now) ==
    LET key == <<r.iso3, r.year>>
    IN  IF key \in DOMAIN seen
        THEN UpdatedRowStandalone(seen[key], pillar, r, now)
        ELSE InsertedRow(pillar, r, now)

\* f with key k set to v (k added to the domain when new).
Put(f, k, v) == [x \in DOMAIN f \cup {k} |-> IF x = k THEN v ELSE f[x]]

\* The statement on a connection in autocommit mode.
ExecuteUpsertAutocommit(tbl, tx, key, row) == <<Put(tbl, key, row), tx>>

\* cur.execute(<upsert>) inside the run's open transaction: the committed
\* table stays as it is and the new row version is the transaction's own
\* until conn.commit().  The pair <<committed table, transaction's rows>>.
ExecuteUpsert(tbl, tx, key, row) == <<tbl, Put(tx, key, row)>>

\* conn.commit(): the transaction's rows become the committed ones.
CommitRows(tbl, tx) ==
    [k \in DOMAIN tbl \cup DOMAIN tx |-> IF k \in DOMAIN tx THEN tx[k] ELSE tbl[k]]

-----------------------------------------------------------------------------
(* Data quality checks: etl/data_quality/checks.py.  observations.id is    *)
(* the position of the row in the corpus (a serial; an overwrite keeps     *)
(* it).  Scores and differences are in centipoints.                        *)

Abs(x) == IF x < 0 THEN 0 - x ELSE x

\* Flag(observation_id, flag_type, severity, details)
Flag(observation_id, flag_type, severity, details) ==
    [observation_id |-> observation_id, flag_type |-> flag_type,
     severity |-> severity, details |-> details]

\* ORDER BY diff DESC: rows of equal diff keep the order they came in.
RECURSIVE InsertByDiff(_, _)
InsertByDiff(s, x) ==
    IF s = << >> THEN <<x>>
    ELSE IF s[Len(s)].diff >= x.diff THEN Append(s, x)
    ELSE Append(InsertByDiff(SubSeq(s, 1, Len(s) - 1), x), s[Len(s)])

RECURSIVE OrderByDiffDesc(_)
OrderByDiffDesc(s) ==
    IF s = << >> THEN << >>
    ELSE InsertByDiff(OrderByDiffDesc(SubSeq(s, 1, Len(s) - 1)), s[Len(s)])

\* The pairs <<a, b>> of ids of corp, row by row.
IdPairs(corp) ==
    [k \in 1..(Len(corp) * Len(corp)) |->
        <<((k - 1) \div Len(corp)) + 1, ((k - 1) % Len(corp)) + 1>>]

\* The CTE pairs and the WHERE on diff of detect_cross_source_inconsistencies.
CrossSourceJoined(corp, a, b) ==
    /\ corp[a].iso3 = corp[b].iso3
    /\ corp[a].year = corp[b].year
    /\ corp[a].trust_type = corp[b].trust_type
    /\ SourceOrd(corp[a].source) < SourceOrd(corp[b].source)
    /\ corp[a].trust_type # "governance"
    /\ corp[a].score_0_100 # Null
    /\ corp[b].score_0_100 # Null
    /\ LET diff == Abs(The(corp[a].score_0_100) - The(corp[b].score_0_100))
       IN  \/ corp[a].trust_type # "media" /\ diff > 3000
           \/ corp[a].trust_type = "media" /\ diff > 3500

CrossSourceRows(corp) ==
    LET joined == SelectSeq(IdPairs(corp),
                            LAMBDA ab : CrossSourceJoined(corp, ab[1], ab[2]))
    IN  OrderByDiffDesc(
            [k \in 1..Len(joined) |->
                [id_a |-> joined[k][1], id_b |-> joined[k][2],
                 diff |-> Abs(The(corp[joined[k][1]].score_0_100)
                              - The(corp[joined[k][2]].score_0_100))]])

\* Variant of FlaggedId: the observation of the first source of the pair.
FlaggedIdOfFirstSource(corp, row) == row.id_a

\* flagged_id = id_a if score_a > score_b else id_b
FlaggedId(corp, row) ==
    IF The(corp[row.id_a].score_0_100) > The(corp[row.id_b].score_0_100)
    THEN row.id_a ELSE row.id_b

\* The loop over the rows: an observation already in seen_pairs is skipped.
RECURSIVE CrossSourceLoop(_, _, _)
CrossSourceLoop(corp, rows, seen_pairs) ==
    IF rows = << >> THEN << >>
    ELSE LET row == Head(rows)
             flagged_id == FlaggedId(corp, row)
         IN  IF flagged_id \in seen_pairs
             THEN CrossSourceLoop(corp, Tail(rows), seen_pairs)
             ELSE <<Flag(flagged_id, "cross_source",
                         IF row.diff > 4000 THEN "error" ELSE "warning",
                         [other |-> IF flagged_id = row.id_a THEN row.id_b
                                    ELSE row.id_a,
                          change |-> row.diff])>>
                  \o CrossSourceLoop(corp, Tail(rows),
                                     seen_pairs \cup {flagged_id})

detect_cross_source_inconsistencies(corp) ==
    CrossSourceLoop(corp, CrossSourceRows(corp), {})

\* Variant of Lag: the first row of the series, not the row before.
LagFirstOfSeries(corp, i) ==
    CHOOSE j \in {k \in 1..Len(corp) : /\ corp[k].iso3 = corp[i].iso3
                                       /\ corp[k].source = corp[i].source
                                       /\ corp[k].trust_type = corp[i].trust_type
                                       /\ corp[k].year < corp[i].year} :
        \A k \in 1..Len(corp) :
            (/\ corp[k].iso3 = corp[i].iso3
             /\ corp[k].source = corp[i].source
             /\ corp[k].trust_type = corp[i].trust_type) =>
                corp[j].year <= corp[k].year

\* LAG(...) OVER (PARTITION BY iso3, source, trust_type ORDER BY year): the
\* ids of the rows of i's series before i, and the last of them.
Earlier(corp, i) ==
    {j \in 1..Len(corp) : /\ corp[j].iso3 = corp[i].iso3
                          /\ corp[j].source = corp[i].source
                          /\ corp[j].trust_type = corp[i].trust_type
                          /\ corp[j].year < corp[i].year}

Lag(corp, i) ==
    CHOOSE j \in Earlier(corp, i) :
        \A k \in Earlier(corp, i) : corp[k].year <= corp[j].year

\* WHERE prev_score IS NOT NULL AND ABS(score_0_100 - prev_score) > 25
\*   AND year - prev_year <= 5
YoyChanged(corp, i) ==
    /\ Earlier(corp, i) # {}
    /\ corp[Lag(corp, i)].score_0_100 # Null
    /\ corp[i].score_0_100 # Null
    /\ Abs(The(corp[i].score_0_100)
           - The(corp[Lag(corp, i)].score_0_100)) > 2500
    /\ corp[i].year - corp[Lag(corp, i)].year <= 5

YoyRows(corp) ==
    LET ids     == [i \in 1..Len(corp) |-> i]
        changed == SelectSeq(ids, LAMBDA i : YoyChanged(corp, i))
    IN  OrderByDiffDesc(
            [k \in 1..Len(changed) |->
                [id |-> changed[k], prev_id |-> Lag(corp, changed[k]),
                 change |-> The(corp[changed[k]].score_0_100)
                            - The(corp[Lag(corp, changed[k])].score_0_100),
                 diff |-> Abs(The(corp[changed[k]].score_0_100)
                              - The(corp[Lag(corp, changed[k])].score_0_100))]])

detect_yoy_anomalies(corp) ==
    LET rows == YoyRows(corp)
    IN  [k \in 1..Len(rows) |->
            Flag(rows[k].id, "yoy_anomaly",
                 IF Abs(rows[k].change) > 4000 THEN "error" ELSE "warning",
                 [other |-> rows[k].prev_id, change |-> rows[k].change])]

\* ORDER BY on one integer key, ascending; rows with equal keys keep the
\* order they are read in.
OrderByKey(s) ==
    LET rank == [i \in 1..Len(s) |->
                    Cardinality({j \in 1..Len(s) :
                        \/ s[j].key < s[i].key
                        \/ s[j].key = s[i].key /\ j < i}) + 1]
    IN  [k \in 1..Len(s) |-> s[CHOOSE i \in 1..Len(s) : rank[i] = k]]

\* The rows of s at the positions of I, in the order of s.
Pick(s, I) ==
    LET at == SelectSeq([i \in 1..Len(s) |-> i], LAMBDA i : i \in I)
    IN  [k \in 1..Len(at) |-> s[at[k]]]

\* ORDER BY key LIMIT n on rows already in key order: every row before the
\* n-th row's key is returned; of the rows that share that key any
\* selection that fills the limit may be, the ORDER BY does not say which.
LimitOutcomes(s, n) ==
    IF Len(s) <= n THEN {s}
    ELSE LET before == {i \in 1..Len(s) : s[i].key < s[n].key}
             tied   == {i \in 1..Len(s) : s[i].key = s[n].key}
         IN  {Pick(s, before \cup T) :
                 T \in {U \in SUBSET tied :
                           Cardinality(U) = n - Cardinality(before)}}

\* LIMIT 100 of the missing-sample query.
MissingSampleLimit == 100

SampleTrustTypes == {"interpersonal", "institutional", "media"}

\* The ids of the observations that satisfy sel, each with its sort key.
KeyedIds(corp, sel, key) ==
    LET ids == SelectSeq([i \in 1..Len(corp) |-> i], LAMBDA i : sel[i])
    IN  [k \in 1..Len(ids) |-> [id |-> ids[k], key |-> key[ids[k]]]]

\* WHERE sample_n IS NOT NULL AND sample_n < 100 AND trust_type IN (...)
\* ORDER BY sample_n
LowSampleRows(corp) ==
    OrderByKey(KeyedIds(corp,
        [i \in 1..Len(corp) |->
            /\ corp[i].sample_n # Null
            /\ The(corp[i].sample_n) < 100
            /\ corp[i].trust_type \in SampleTrustTypes],
        [i \in 1..Len(corp) |->
            IF corp[i].sample_n = Null THEN 0 ELSE The(corp[i].sample_n)]))

\* WHERE sample_n > 100000 ORDER BY sample_n DESC
LargeSampleRows(corp) ==
    OrderByKey(KeyedIds(corp,
        [i \in 1..Len(corp) |->
            /\ corp[i].sample_n # Null
            /\ The(corp[i].sample_n) > 100000],
        [i \in 1..Len(corp) |->
            IF corp[i].sample_n = Null THEN 0 ELSE 0 - The(corp[i].sample_n)]))

\* WHERE sample_n IS NULL AND trust_type IN (...) AND source NOT IN
\* ('OECD', 'Eurobarometer') ORDER BY source, year
MissingSampleRows(corp) ==
    OrderByKey(KeyedIds(corp,
        [i \in 1..Len(corp) |->
            /\ corp[i].sample_n = Null
            /\ corp[i].trust_type \in SampleTrustTypes
            /\ corp[i].source \notin {"OECD", "Eurobarometer"}],
        [i \in 1..Len(corp) |->
            SourceOrd(corp[i].source) * 10000 + corp[i].year]))

SampleFlags(corp, rows, errorBelow) ==
    [k \in 1..Len(rows) |->
        Flag(rows[k].id, "sample_size",
             IF /\ corp[rows[k].id].sample_n # Null
                /\ The(corp[rows[k].id].sample_n) < errorBelow
             THEN "error" ELSE "warning",
             [sample_n |-> corp[rows[k].id].sample_n])]

\* detect_sample_size_issues: the lists of flags the three queries can
\* return, one list for each selection the LIMIT can make.
detect_sample_size_issues(corp) ==
    {SampleFlags(corp, LowSampleRows(corp), 50)
        \o SampleFlags(corp, LargeSampleRows(corp), 0)
        \o SampleFlags(corp, missing, 0) :
        missing \in LimitOutcomes(MissingSampleRows(corp), MissingSampleLimit)}

\* HAVING COUNT(DISTINCT iso3) < 5
MinSourceCountries == 5

\* LIMIT 50 of the single-observation query.
CoverageCountryLimit == 50

\* The countries table.
Countries == Range(IsoNames)

\* COUNT(DISTINCT iso3) of a source among the survey observations.
SourceCountryCount(corp, source) ==
    Cardinality({corp[i].iso3 : i \in
        {j \in 1..Len(corp) :
            /\ corp[j].source = source
            /\ corp[j].trust_type \in {"interpersonal", "institutional"}}})

\* GROUP BY source HAVING COUNT(DISTINCT iso3) < 5 ORDER BY country_count
FewCountrySources(corp) ==
    LET few == SelectSeq(SourceNames, LAMBDA s :
                   /\ SourceCountryCount(corp, s) > 0
                   /\ SourceCountryCount(corp, s) < MinSourceCountries)
    IN  OrderByKey([k \in 1..Len(few) |->
            [source |-> few[k], key |-> SourceCountryCount(corp, few[k])]])

\* JOIN countries ... GROUP BY o.iso3, c.name HAVING COUNT(*) = 1
\* ORDER BY c.name LIMIT 50
SingleObservationCountries(corp) ==
    LET one == SelectSeq(IsoNames, LAMBDA c :
                   /\ c \in Countries
                   /\ Cardinality({i \in 1..Len(corp) : corp[i].iso3 = c}) = 1)
    IN  SubSeq(one, 1, Min(Len(one), CoverageCountryLimit))

\* detect_coverage_gaps: flags that belong to no observation, with
\* observation_id 0.
detect_coverage_gaps(corp) ==
    LET few == FewCountrySources(corp)
        one == SingleObservationCountries(corp)
    IN  [k \in 1..Len(few) |->
            Flag(0, "coverage_gap", "warning",
                 [source |-> few[k].source, country_count |-> few[k].key])]
        \o [k \in 1..Len(one) |->
            Flag(0, "coverage_gap", "warning",
                 [iso3 |-> one[k], observation_count |-> 1])]

-----------------------------------------------------------------------------
(* The quality sweep: etl/data_quality/sweep.py.  run_sweep runs the       *)
(* checks one after the other, each with a SELECT of its own, then         *)
(* save_flags_to_db upserts the flags in one transaction and commits.      *)

\* CHECKS, the registry: the checks of the model.
CHECKS == {"yoy_anomalies", "cross_source", "sample_size", "coverage_gaps"}

\* check_fn(conn) of a check whose queries return one list.
CheckFlags(check_name, corp) ==
    CASE check_name = "yoy_anomalies" -> detect_yoy_anomalies(corp)
      [] check_name = "cross_source" ->
            detect_cross_source_inconsistencies(corp)
      [] check_name = "coverage_gaps" -> detect_coverage_gaps(corp)

\* check_fn(conn): the lists of flags the call can return.
CheckOutcomes(check_name, corp) ==
    IF check_name = "sample_size" THEN detect_sample_size_issues(corp)
    ELSE {CheckFlags(check_name, corp)}

FlagKey(flag) == <<flag.observation_id, flag.flag_type>>

\* INSERT INTO data_quality_flags (...) VALUES (..., NOW()): resolved_at is
\* not named and defaults to NULL.
InsertedFlag(flag, now) ==
    [severity |-> flag.severity, details |-> flag.details,
     detected_at |-> now, resolved_at |-> Null]

\* Variant of UpdatedFlag: resolved_at is left as it is.
UpdatedFlagKeepingResolution(old, flag, now) ==
    [old EXCEPT !.severity = flag.severity, !.details = flag.details,
                !.detected_at = now]

\* ON CONFLICT (observation_id, flag_type) DO UPDATE SET severity, details,
\* detected_at = NOW(), resolved_at = NULL
UpdatedFlag(old, flag, now) ==
    [old EXCEPT !.severity = flag.severity, !.details = flag.details,
                !.detected_at = now, !.resolved_at = Null]

UpsertFlag(seen, flag, now) ==
    IF FlagKey(flag) \in DOMAIN seen
    THEN UpdatedFlag(seen[FlagKey(flag)], flag, now)
    ELSE InsertedFlag(flag, now)

\* Variant of CommitFlags: the rows the sweep did not write are marked
\* resolved.
CommitFlagsResolvingAbsent(store, tx, now) ==
    [k \in DOMAIN store \cup DOMAIN tx |->
        IF k \in DOMAIN tx THEN tx[k]
        ELSE [store[k] EXCEPT !.resolved_at = Some(now)]]

\* conn.commit() of save_flags_to_db: the upserted rows replace or join
\* the rows of the store, every other row stays.
CommitFlags(store, tx, now) == CommitRows(store, tx)

\* Variant of write_csv_report: the flags that are not saved are not
\* reported.
write_csv_report_saved_only(flags) ==
    LET kept == SelectSeq(flags, LAMBDA f : f.observation_id # 0)
    IN  [k \in 1..Len(kept) |->
            [observation_id |-> Some(kept[k].observation_id),
             flag_type |-> kept[k].flag_type,
             severity |-> kept[k].severity,
             details |-> kept[k].details]]

\* write_csv_report: one line per flag, the observation_id column blank
\* for observation_id 0.
write_csv_report(flags) ==
    [k \in 1..Len(flags) |->
        [observation_id |-> IF flags[k].observation_id # 0
                            THEN Some(flags[k].observation_id) ELSE Null,
         flag_type |-> flags[k].flag_type,
         severity |-> flags[k].severity,
         details |-> flags[k].details]]

\* `if output_csv: write_csv_report(all_flags, output_csv, conn)`
CsvOf(sw) ==
    IF sw.output_csv THEN Some(write_csv_report(sw.all_flags)) ELSE Null

\* SweepReport(total_flags, errors, warnings, by_type)
SweepReport(all_flags, by_type) ==
    [total_flags |-> Len(all_flags),
     errors   |-> Cardinality({k \in 1..Len(all_flags) :
                                  all_flags[k].severity = "error"}),
     warnings |-> Cardinality({k \in 1..Len(all_flags) :
                                  all_flags[k].severity = "warning"}),
     by_type  |-> by_type]

\* main: `return 1 if report.errors > 0 else 0`, the exit code of the
\* command.
main_exit_always_zero(report) == 0

main_exit(report) == IF report.errors > 0 THEN 1 ELSE 0

\* The locals of run_sweep and save_flags_to_db before the call; warned
\* is the names the "Unknown check" warning was printed for, exit is what
\* main returns to sys.exit for the report of this call.  History:
\* storeAtStart and storeAtEnd are the Flag store when the call was made
\* and when it returned, prev is the record of the call before this one.
IdleSweep ==
    [pc |-> "idle", checks |-> << >>, todo |-> << >>, all_flags |-> << >>,
     by_type |-> << >>, save_to_db |-> FALSE, idx |-> 1, txn |-> << >>,
     saved |-> 0, now |-> 0, outcome |-> "none", overlapped |-> FALSE,
     report |-> Null, storeAtStart |-> << >>, storeAtEnd |-> << >>,
     prev |-> Null, output_csv |-> FALSE, csv |-> Null, calls |-> 0,
     warned |-> << >>, exit |-> Null]

\* History: what is kept of a call that has returned.
SweepHistory(sw) ==
    [checks |-> sw.checks, save_to_db |-> sw.save_to_db,
     all_flags |-> sw.all_flags, report |-> sw.report, csv |-> sw.csv,
     storeAtStart |-> sw.storeAtStart, storeAtEnd |-> sw.storeAtEnd]

\* History: an aggregation run is between its SELECT and its commit.
RunInProgress == \E r \in RunIds : pc[r] = "writing"

\* run_sweep(conn, checks, save_to_db, output_csv) is called.
SweepStartCsv(checks, save_to_db, output_csv) ==
    /\ sweep.pc = "idle"
    /\ sweep' = [IdleSweep EXCEPT !.pc = "running", !.checks = checks,
                                  !.todo = checks, !.save_to_db = save_to_db,
                                  !.output_csv = output_csv,
                                  !.now = clock, !.outcome = "running",
                                  !.storeAtStart = flagStore,
                                  !.calls = sweep.calls + 1,
                                  !.prev = IF sweep.outcome = "reported"
                                           THEN Some(SweepHistory(sweep))
                                           ELSE Null]
    /\ UNCHANGED <<corpus, clock, flagStore, ingest>>
    /\ UNCHANGED aggVars

\* run_sweep(conn, checks, save_to_db) is called, output_csv left None.
SweepStart(checks, save_to_db) == SweepStartCsv(checks, save_to_db, FALSE)

\* `if check_name not in CHECKS`: the warning is printed and `continue`
\* goes to the next name of the list.
SkipUnknownLeavingLoop(sw, check_name) ==
    [sw EXCEPT !.todo = << >>, !.warned = Append(@, check_name)]

SkipUnknown(sw, check_name) ==
    [sw EXCEPT !.todo = Tail(@), !.warned = Append(@, check_name)]

\* One pass of `for check_name in checks_to_run`: an unknown name is
\* skipped, a registered check reads the observations and adds its flags.
RunCheck ==
    /\ sweep.pc = "running"
    /\ sweep.todo # << >>
    /\ LET check_name == Head(sweep.todo)
       IN  IF check_name \notin CHECKS
           THEN sweep' = SkipUnknown(sweep, check_name)
           ELSE \E flags \in CheckOutcomes(check_name, corpus) :
                   sweep' = [sweep EXCEPT
                                !.todo = Tail(@),
                                !.all_flags = @ \o flags,
                                !.by_type = Put(@, check_name, Len(flags)),
                                !.overlapped = @ \/ RunInProgress]
    /\ UNCHANGED <<corpus, clock, flagStore, ingest>>
    /\ UNCHANGED aggVars

\* One pass of `for flag in flags` of save_flags_to_db: a flag with
\* observation_id 0 is skipped, any other is upserted.
SaveFlag ==
    /\ sweep.pc = "running"
    /\ sweep.todo = << >>
    /\ sweep.save_to_db
    /\ sweep.idx <= Len(sweep.all_flags)
    /\ LET flag == sweep.all_flags[sweep.idx]
           seen == CommitRows(flagStore, sweep.txn)
       IN  sweep' = IF flag.observation_id = 0
                    THEN [sweep EXCEPT !.idx = @ + 1]
                    ELSE [sweep EXCEPT !.idx = @ + 1, !.saved = @ + 1,
                              !.txn = Put(@, FlagKey(flag),
                                          UpsertFlag(seen, flag, sweep.now)),
                              !.overlapped = @ \/ RunInProgress]
    /\ UNCHANGED <<corpus, clock, flagStore, ingest>>
    /\ UNCHANGED aggVars

\* conn.commit() after the loop, and run_sweep returns its report.
SweepCommit ==
    /\ sweep.pc = "running"
    /\ sweep.todo = << >>
    /\ sweep.save_to_db
    /\ sweep.all_flags # << >>
    /\ sweep.idx > Len(sweep.all_flags)
    /\ flagStore' = CommitFlags(flagStore, sweep.txn, sweep.now)
    /\ sweep' = [sweep EXCEPT
                    !.pc = "idle", !.txn = << >>, !.outcome = "reported",
                    !.storeAtEnd = CommitFlags(flagStore, sweep.txn, sweep.now),
                    !.csv = CsvOf(sweep),
                    !.report = Some(SweepReport(sweep.all_flags, sweep.by_type)),
                    !.exit = Some(main_exit(
                                SweepReport(sweep.all_flags, sweep.by_type)))]
    /\ UNCHANGED <<corpus, clock, ingest>>
    /\ UNCHANGED aggVars

\* save_to_db is false, or `if not flags: return 0`: nothing is written.
SweepReturn ==
    /\ sweep.pc = "running"
    /\ sweep.todo = << >>
    /\ ~sweep.save_to_db \/ sweep.all_flags = << >>
    /\ sweep' = [sweep EXCEPT
                    !.pc = "idle", !.outcome = "reported",
                    !.storeAtEnd = flagStore,
                    !.csv = CsvOf(sweep),
                    !.report = Some(SweepReport(sweep.all_flags, sweep.by_type)),
                    !.exit = Some(main_exit(
                                SweepReport(sweep.all_flags, sweep.by_type)))]
    /\ UNCHANGED <<corpus, clock, flagStore, ingest>>
    /\ UNCHANGED aggVars

\* Outside the engine: a reviewer marks a flag resolved,
\* UPDATE data_quality_flags SET resolved_at = NOW().  The statement waits
\* while the sweep's open transaction holds the row.
ResolveFlag(key) ==
    /\ key \in DOMAIN flagStore
    /\ key \notin DOMAIN sweep.txn
    /\ flagStore[key].resolved_at = Null
    /\ flagStore' = [flagStore EXCEPT ![key].resolved_at = Some(clock)]
    /\ UNCHANGED <<corpus, clock, sweep, ingest>>
    /\ UNCHANGED aggVars

-----------------------------------------------------------------------------
(* Aggregation runs.  A run is one call of aggregate_survey_pillar or      *)
(* aggregate_media_pillar on a connection of its own: the SELECT, then one *)
(* upsert per result inside one transaction, then conn.commit().  An       *)
(* exception leaves the function before the commit and main() closes the   *)
(* connection, which discards the transaction.                             *)

AggregatedPillars == {"interpersonal", "institutional", "media"}

IdleJob ==
    [pillar |-> "none", dry_run |-> FALSE, now |-> 0, rerun |-> FALSE,
     standalone |-> FALSE]

ReadRows(corp, pillar) ==
    IF pillar = "media" THEN SelectMediaRows(corp)
    ELSE SelectSurveyRows(corp, pillar)

ComputeResults(corp, pillar, current_year) ==
    IF pillar = "media" THEN MediaResults(ReadRows(corp, pillar), current_year)
    ELSE SurveyResults(ReadRows(corp, pillar), current_year)

\* `countries`: the survey run counts the countries of country_years, the
\* media run every country it grouped, skipped country-years included.
CountriesProcessed(corp, pillar, res) ==
    IF pillar = "media"
    THEN {ReadRows(corp, pillar)[i].iso3 : i \in 1..Len(ReadRows(corp, pillar))}
    ELSE {res[i].iso3 : i \in 1..Len(res)}

\* Variant of PcAfterRead: the write loop is entered whatever dry_run is.
PcAfterReadIgnoringDryRun(early, dry_run) ==
    IF early THEN "idle" ELSE "writing"

\* `if not rows: return {...}` and `if dry_run: return stats`: the function
\* returns before the write loop, otherwise it goes on to it.
PcAfterRead(early, dry_run) ==
    IF early \/ dry_run THEN "idle" ELSE "writing"

\* The call up to `if dry_run: return stats`.
Start(r, pillar, dry_run) ==
    /\ pc[r] = "idle"
    /\ LET res == ComputeResults(corpus, pillar, CurrentYear(clock))
           early == pillar # "media" /\ ReadRows(corpus, pillar) = << >>
       IN  /\ results' = [results EXCEPT ![r] = res]
           /\ stats' = [stats EXCEPT ![r] =
                  IF early THEN EmptyStats
                  ELSE Stats(CountriesProcessed(corpus, pillar, res), res)]
           /\ pc' = [pc EXCEPT ![r] = PcAfterRead(early, dry_run)]
           /\ outcome' = [outcome EXCEPT ![r] =
                  IF early THEN "returned"
                  ELSE IF dry_run THEN "dry_run" ELSE "running"]
    /\ job' = [job EXCEPT ![r] =
                  [pillar |-> pillar, dry_run |-> dry_run, now |-> clock,
                   rerun |-> lastCommitted[pillar] = Some(CurrentYear(clock)),
                   standalone |-> FALSE]]
    /\ snapshot' = [snapshot EXCEPT ![r] = corpus]
    /\ tableAtStart' = [tableAtStart EXCEPT ![r] = table]
    /\ nextIdx' = [nextIdx EXCEPT ![r] = 1]
    /\ UNCHANGED sweepVars
    /\ UNCHANGED <<corpus, table, clock, txn, lastCommitted>>

\* `results` of the standalone entry point of a pillar.
StandaloneResults(corp, pillar, current_year) ==
    IF pillar = "media"
    THEN MediaObservationResults(SelectMediaRows(corp), current_year)
    ELSE SurveyObservationResults(SelectSurveyObservations(corp, pillar),
                                  current_year)

\* aggregate_survey_observations(conn, pillar, dry_run) or
\* aggregate_media_observations(conn, dry_run), up to
\* `if dry_run: return`; the survey function returns at once when its
\* SELECT finds no row.
StartStandalone(r, pillar, dry_run) ==
    /\ pc[r] = "idle"
    /\ LET res == StandaloneResults(corpus, pillar, CurrentYear(clock))
           early == /\ pillar # "media"
                    /\ SelectSurveyObservations(corpus, pillar) = << >>
       IN  /\ results' = [results EXCEPT ![r] = res]
           /\ stats' = [stats EXCEPT ![r] =
                  IF early THEN EmptyStats
                  ELSE Stats(CountriesProcessed(corpus, pillar, res), res)]
           /\ pc' = [pc EXCEPT ![r] = PcAfterRead(early, dry_run)]
           /\ outcome' = [outcome EXCEPT ![r] =
                  IF early THEN "returned"
                  ELSE IF dry_run THEN "dry_run" ELSE "running"]
    /\ job' = [job EXCEPT ![r] =
                  [pillar |-> pillar, dry_run |-> dry_run, now |-> clock,
                   rerun |-> lastCommitted[pillar] = Some(CurrentYear(clock)),
                   standalone |-> TRUE]]
    /\ snapshot' = [snapshot EXCEPT ![r] = corpus]
    /\ tableAtStart' = [tableAtStart EXCEPT ![r] = table]
    /\ nextIdx' = [nextIdx EXCEPT ![r] = 1]
    /\ UNCHANGED sweepVars
    /\ UNCHANGED <<corpus, table, clock, txn, lastCommitted>>

\* One pass of `for r in results: cur.execute(...)`.  The statement waits
\* while another open transaction holds the row; it sees the committed row.
Write(r) ==
    /\ pc[r] = "writing"
    /\ nextIdx[r] <= Len(results[r])
    /\ LET res  == results[r][nextIdx[r]]
           key  == <<res.iso3, res.year>>
           row  == IF job[r].standalone
                   THEN UpsertRowStandalone(CommitRows(table, txn[r]),
                                            job[r].pillar, res, job[r].now)
                   ELSE UpsertRow(CommitRows(table, txn[r]), job[r].pillar,
                                  res, job[r].now)
           pair == ExecuteUpsert(table, txn[r], key, row)
       IN  /\ \A o \in RunIds \ {r} : key \notin DOMAIN txn[o]
           /\ table' = pair[1]
           /\ txn' = [txn EXCEPT ![r] = pair[2]]
    /\ nextIdx' = [nextIdx EXCEPT ![r] = @ + 1]
    /\ UNCHANGED sweepVars
    /\ UNCHANGED <<corpus, clock, pc, job, results, stats, outcome, snapshot,
                   tableAtStart, lastCommitted>>

\* cur.execute raises: the exception leaves the function, main() reports
\* it and conn.close() discards the open transaction.
WriteFails(r) ==
    /\ pc[r] = "writing"
    /\ nextIdx[r] <= Len(results[r])
    /\ txn' = [txn EXCEPT ![r] = << >>]
    /\ pc' = [pc EXCEPT ![r] = "idle"]
    /\ outcome' = [outcome EXCEPT ![r] = "error"]
    /\ UNCHANGED sweepVars
    /\ UNCHANGED <<corpus, table, clock, job, results, nextIdx, stats, snapshot,
                   tableAtStart, lastCommitted>>

\* conn.commit() after the loop, and `return stats`.
Commit(r) ==
    /\ pc[r] = "writing"
    /\ nextIdx[r] > Len(results[r])
    /\ table' = CommitRows(table, txn[r])
    /\ txn' = [txn EXCEPT ![r] = << >>]
    /\ pc' = [pc EXCEPT ![r] = "idle"]
    /\ outcome' = [outcome EXCEPT ![r] = "committed"]
    /\ lastCommitted' = [lastCommitted EXCEPT ![job[r].pillar] =
           IF corpus = snapshot[r] THEN Some(CurrentYear(job[r].now)) ELSE Null]
    /\ UNCHANGED sweepVars
    /\ UNCHANGED <<corpus, clock, job, results, nextIdx, stats, snapshot,
                   tableAtStart>>

\* No ingestion yet.  History: before is the table when the ingestion
\* began.
IdleIngest ==
    [via |-> "none", batch |-> << >>, outcome |-> "none", before |-> << >>]

InitRuns ==
    /\ pc = [r \in RunIds |-> "idle"]
    /\ job = [r \in RunIds |-> IdleJob]
    /\ results = [r \in RunIds |-> << >>]
    /\ nextIdx = [r \in RunIds |-> 1]
    /\ txn = [r \in RunIds |-> << >>]
    /\ stats = [r \in RunIds |-> EmptyStats]
    /\ outcome = [r \in RunIds |-> "none"]
    /\ snapshot = [r \in RunIds |-> << >>]
    /\ tableAtStart = [r \in RunIds |-> << >>]
    /\ lastCommitted = [p \in AggregatedPillars |-> Null]
    /\ flagStore = << >>
    /\ sweep = IdleSweep
    /\ ingest = IdleIngest

-----------------------------------------------------------------------------
(* Corpora of the model *)

\* A row of observations with its sample_n column.
ObsN(iso3, year, source, trust_type, score, sample_n) ==
    [iso3 |-> iso3, year |-> year, source |-> source,
     trust_type |-> trust_type, score_0_100 |-> score, sample_n |-> sample_n]

\* A row whose sample_n is NULL.
Obs(iso3, year, source, trust_type, score) ==
    ObsN(iso3, year, source, trust_type, score, Null)

ObsKey(o) == <<o.iso3, o.year, o.source, o.trust_type>>

\* Lists of at most n observations of U with pairwise different keys (the
\* unique constraint on (iso3, year, source, trust_type)), in every order.
RECURSIVE CorporaOf(_, _)
CorporaOf(U, n) ==
    IF n = 0 THEN {<< >>}
    ELSE LET shorter == CorporaOf(U, n - 1)
         IN  shorter \cup
             {Append(c, o) : <<c, o>> \in
                 {<<c, o>> \in shorter \X U :
                     /\ Len(c) = n - 1
                     /\ \A i \in 1..Len(c) : ObsKey(c[i]) # ObsKey(o)}}

MaxRows == 3

YearNew == BaseYear - 1

YearOld == BaseYear - 6

\* Institutional trust of one country, two years: ranked sources, two of
\* them tied at rank 3, an unranked one, an excluded one, a NULL score.
SurveyUniverse ==
    {Obs("XAA", y, s, "institutional",
         Some(CASE s = "WVS" -> 5504 [] s = "ANES" -> 4000 [] s = "GSS" -> 3337
                [] s = "Eurobarometer" -> 9996 [] OTHER -> 6000))
        : y \in {YearNew, YearOld}, s \in {"WVS", "ANES", "GSS", "Eurobarometer", "ESS"}}
    \cup {Obs("XAA", YearNew, "WVS", "institutional", Null),
          Obs("XBB", YearNew, "Afrobarometer", "institutional", Some(4))}

\* Media trust: the three weighted sources and one without a weight.
MediaUniverse ==
    {Obs("XAA", y, s, "media",
         Some(CASE s = "Reuters_DNR" -> 6000 [] s = "Eurobarometer" -> 8000
                [] s = "WVS" -> 3337 [] OTHER -> 5000))
        : y \in {YearNew, YearOld}, s \in {"Reuters_DNR", "Eurobarometer", "WVS", "Afrobarometer"}}
    \cup {Obs("XAA", YearNew, "Reuters_DNR", "media", Some(9996)),
          Obs("XBB", YearNew, "WVS", "media", Null)}

-----------------------------------------------------------------------------
(* SpecBatch: one aggregation run (dry or persisting) over every corpus of *)
(* at most MaxRows rows, in every physical order, into an empty table.     *)

InitBatch ==
    /\ corpus \in CorporaOf(SurveyUniverse, MaxRows) \cup CorporaOf(MediaUniverse, MaxRows)
    /\ table = << >>
    /\ clock = 0
    /\ InitRuns

NextBatch ==
    \/ \E p \in AggregatedPillars, d \in BOOLEAN :
          /\ outcome[1] = "none"
          /\ Start(1, p, d)
    \/ Write(1)
    \/ WriteFails(1)
    \/ Commit(1)

SpecBatch == InitBatch /\ [][NextBatch]_vars

-----------------------------------------------------------------------------
(* Spec: the engine run by run.  Ingestion loads observations at any       *)
(* time, the clock advances, and one aggregation run at a time is started, *)
(* writes, and commits or fails on a write.                                *)

MaxObs == 2

MaxClock == 1

\* What the ETL jobs load: institutional observations of two years (ANES
\* re-ingested with another score, WVS outranking it, scores next to both
\* ends of the scale) and media observations of two weighted sources.
LoadUniverse ==
    {Obs("XAA", YearNew, "ANES", "institutional", Some(4000)),
     Obs("XAA", YearNew, "ANES", "institutional", Some(9996)),
     Obs("XAA", YearNew, "WVS", "institutional", Some(5504)),
     Obs("XAA", YearOld, "GSS", "institutional", Some(4)),
     Obs("XAA", YearNew, "Reuters_DNR", "media", Some(6000)),
     Obs("XAA", YearNew, "WVS", "media", Some(3337))}

\* INSERT INTO observations ... ON CONFLICT (iso3, year, source, trust_type)
\* DO UPDATE SET score_0_100 = EXCLUDED.score_0_100, ...
UpsertObservation(corp, o) ==
    IF \E i \in 1..Len(corp) : ObsKey(corp[i]) = ObsKey(o)
    THEN [i \in 1..Len(corp) |->
             IF ObsKey(corp[i]) = ObsKey(o) THEN o ELSE corp[i]]
    ELSE Append(corp, o)

\* valid_trust_types of validate_observation.
valid_trust_types ==
    {"interpersonal", "institutional", "governance", "partisan", "cpi",
     "wgi", "oecd", "derived", "freedom", "media"}

\* Variant of validate_observation: the score bounds are not checked.
validate_observation_any_score(obs) == obs.trust_type \in valid_trust_types

\* validate_observation returns (TRUE) or raises ValueError (FALSE): the
\* score is outside [0, 100] or the trust type is not a valid one.
validate_observation(obs) ==
    /\ ~(The(obs.score_0_100) < 0 \/ The(obs.score_0_100) > 10000)
    /\ obs.trust_type \in valid_trust_types

\* `seen[key] = obs` for every observation, then list(seen.values()): one
\* observation per key, the last one, at the place of the first.
RECURSIVE DedupeKeepLast(_)
DedupeKeepLast(observations) ==
    IF observations = << >> THEN << >>
    ELSE LET n    == Len(observations)
             last == observations[n]
             seen == DedupeKeepLast(SubSeq(observations, 1, n - 1))
         IN  IF \E i \in 1..Len(seen) : ObsKey(seen[i]) = ObsKey(last)
             THEN [i \in 1..Len(seen) |->
                      IF ObsKey(seen[i]) = ObsKey(last) THEN last ELSE seen[i]]
             ELSE Append(seen, last)

\* execute_values(INSERT ... ON CONFLICT ... DO UPDATE) over the rows.
RECURSIVE UpsertAll(_, _)
UpsertAll(corp, observations) ==
    IF observations = << >> THEN corp
    ELSE UpsertAll(UpsertObservation(corp, Head(observations)),
                   Tail(observations))

\* BaseProcessor.load_to_database(observations): the table it commits.
load_to_database(corp, observations) ==
    IF observations = << >> THEN corp
    ELSE UpsertAll(corp, DedupeKeepLast(observations))

\* BaseProcessor.run (the jobs reuters_dnr, oecd, ess, wgi, cpi): every
\* observation of process() is validated, a ValueError leaves run before
\* anything is loaded; otherwise the batch is loaded.
ProcessorRun(batch) ==
    /\ LET valid == \A i \in 1..Len(batch) : validate_observation(batch[i])
       IN  /\ corpus' = IF valid THEN load_to_database(corpus, batch)
                        ELSE corpus
           /\ ingest' = [via |-> "run", batch |-> batch,
                         outcome |-> IF valid THEN "loaded" ELSE "raised",
                         before |-> corpus]
    /\ lastCommitted' = [p \in AggregatedPillars |-> Null]
    /\ UNCHANGED <<flagStore, sweep>>
    /\ UNCHANGED <<table, clock, pc, job, results, nextIdx, txn, stats,
                   outcome, snapshot, tableAtStart>>

\* main() of the jobs that do not call run (wvs, evs, gss, anes, eusilc,
\* lits, ...): `observations = processor.process(...)`, then
\* `if not dry_run and observations: processor.load_to_database(...)`.
JobMain(batch) ==
    /\ corpus' = load_to_database(corpus, batch)
    /\ ingest' = [via |-> "main", batch |-> batch, outcome |-> "loaded",
                  before |-> corpus]
    /\ lastCommitted' = [p \in AggregatedPillars |-> Null]
    /\ UNCHANGED <<flagStore, sweep>>
    /\ UNCHANGED <<table, clock, pc, job, results, nextIdx, txn, stats,
                   outcome, snapshot, tableAtStart>>

\* BaseProcessor.load_to_database(observations) with one observation.
LoadToDatabase(o) ==
    /\ Len(UpsertObservation(corpus, o)) <= MaxObs
    /\ corpus' = UpsertObservation(corpus, o)
    /\ corpus' # corpus
    /\ lastCommitted' = [p \in AggregatedPillars |-> Null]
    /\ UNCHANGED sweepVars
    /\ UNCHANGED <<table, clock, pc, job, results, nextIdx, txn, stats,
                   outcome, snapshot, tableAtStart>>

\* Time passes.  NOW() is the start time of the transaction, so a run does
\* not observe time passing while it writes: the clock moves between runs.
Tick ==
    /\ clock < MaxClock
    /\ \A r \in RunIds : pc[r] = "idle"
    /\ clock' = clock + 1
    /\ UNCHANGED sweepVars
    /\ UNCHANGED <<corpus, table, pc, job, results, nextIdx, txn, stats,
                   outcome, snapshot, tableAtStart, lastCommitted>>

Init ==
    /\ corpus = << >>
    /\ table = << >>
    /\ clock = 0
    /\ InitRuns

Next ==
    \/ \E o \in LoadUniverse : LoadToDatabase(o)
    \/ Tick
    \/ \E p \in AggregatedPillars : Start(1, p, FALSE)
    \/ Write(1)
    \/ WriteFails(1)
    \/ Commit(1)

Spec == Init /\ [][Next]_vars

-----------------------------------------------------------------------------
(* SpecRace: two aggregation processes, each on a connection of its own,   *)
(* started once each at any time while ingestion loads observations.       *)
(* Nothing orders them: the second may read while the first writes, and a  *)
(* statement waits only for a row another open transaction has written.    *)

\* What ingestion loads during the race: a barometer and then WVS for the
\* same country-year (another winner, score and tier), and an older year.
RaceUniverse ==
    {Obs("XAA", YearNew, "Afrobarometer", "institutional", Some(5000)),
     Obs("XAA", YearNew, "WVS", "institutional", Some(5504)),
     Obs("XAA", YearOld, "GSS", "institutional", Some(4000)),
     Obs("XAA", YearNew, "Reuters_DNR", "media", Some(6000))}

InitRace ==
    /\ corpus = << >>
    /\ table = << >>
    /\ clock = 0
    /\ InitRuns

NextRace ==
    \/ \E o \in RaceUniverse : LoadToDatabase(o)
    \/ \E r \in RunIds, p \in AggregatedPillars :
          /\ outcome[r] = "none"
          /\ Start(r, p, FALSE)
    \/ \E r \in RunIds : Write(r)
    \/ \E r \in RunIds : WriteFails(r)
    \/ \E r \in RunIds : Commit(r)

SpecRace == InitRace /\ [][NextRace]_vars

-----------------------------------------------------------------------------
(* SpecFlows: one persisting aggregation run and one quality sweep, each   *)
(* on a connection of its own, over a corpus that no ingestion changes,    *)
(* in every interleaving of their steps.                                   *)

\* Two institutional sources 51 points apart (the higher one the
\* resolver's winner), the winner's series 45 points up five years
\* earlier, and two media sources 40 points apart.
FlowUniverse ==
    {Obs("XAA", YearNew, "WVS", "institutional", Some(5504)),
     Obs("XAA", YearNew, "ANES", "institutional", Some(400)),
     Obs("XAA", YearNew - 5, "WVS", "institutional", Some(9996)),
     Obs("XAA", YearNew, "Reuters_DNR", "media", Some(6000)),
     Obs("XAA", YearNew, "WVS", "media", Some(2000))}

\* checks=None runs the registry in its order; --check names given twice or
\* unknown to the registry are passed as they are.
SweepCheckLists ==
    {<<"yoy_anomalies", "cross_source">>,
     <<"cross_source">>,
     <<"unknown", "yoy_anomalies">>}

InitFlows ==
    /\ corpus \in CorporaOf(FlowUniverse, MaxRows)
    /\ table = << >>
    /\ clock = 0
    /\ InitRuns

NextFlows ==
    \/ \E p \in AggregatedPillars :
          /\ outcome[1] = "none"
          /\ Start(1, p, FALSE)
    \/ Write(1)
    \/ Commit(1)
    \/ \E checks \in SweepCheckLists, save_to_db \in BOOLEAN :
          /\ sweep.outcome = "none"
          /\ SweepStart(checks, save_to_db)
    \/ RunCheck
    \/ SaveFlag
    \/ SweepCommit
    \/ SweepReturn

SpecFlows == InitFlows /\ [][NextFlows]_vars

-----------------------------------------------------------------------------
(* SpecTier: one aggregation run over a corpus that holds one country-year *)
(* of one survey source, or of one or two media sources, of every age from *)
(* next year's data to MaxAge years old.                                   *)

MaxAge == 6

TierYears == (BaseYear - MaxAge)..(BaseYear + 1)

\* Sources of rank 1, 2, 3, 4 and 5 and one the priority table does not list.
TierSurveySources ==
    {"WVS", "EVS", "GSS", "Afrobarometer", "LiTS", "Eurobarometer"}

\* The three weighted media sources and one without a weight.
TierMediaSources == {"Reuters_DNR", "Eurobarometer", "WVS", "Afrobarometer"}

TierCorpora ==
    {<<Obs("XAA", y, s, "institutional", Some(5000))>> :
        y \in TierYears, s \in TierSurveySources}
    \cup {<<Obs("XAA", y, s, "media", Some(5000))>> :
            y \in TierYears, s \in TierMediaSources}
    \cup {<<Obs("XAA", ys[1], ys[2], "media", Some(5000)),
            Obs("XAA", ys[1], ys[3], "media", Some(7000))>> :
            ys \in {x \in TierYears \X TierMediaSources \X TierMediaSources :
                      x[2] # x[3]}}

InitTier ==
    /\ corpus \in TierCorpora
    /\ table = << >>
    /\ clock = 0
    /\ InitRuns

NextTier ==
    \/ \E p \in AggregatedPillars, d \in BOOLEAN :
          /\ outcome[1] = "none"
          /\ Start(1, p, d)
    \/ Write(1)
    \/ Commit(1)

SpecTier == InitTier /\ [][NextTier]_vars

-----------------------------------------------------------------------------
(* SpecDry: --dry-run against a persisting call.  Two aggregation runs of  *)
(* one pillar over one corpus, one with dry_run and one without, in either *)
(* order and interleaved; and two sweeps of one check list one after the   *)
(* other, one with save_to_db and one without, in either order.            *)

InitDry ==
    /\ corpus \in CorporaOf(FlowUniverse, MaxRows)
    /\ table = << >>
    /\ clock = 0
    /\ InitRuns

NextDry ==
    \/ \E p \in AggregatedPillars, d \in BOOLEAN :
          /\ outcome[1] = "none"
          /\ Start(1, p, d)
    \/ /\ outcome[1] # "none"
       /\ outcome[2] = "none"
       /\ Start(2, job[1].pillar, ~job[1].dry_run)
    \/ \E r \in RunIds : Write(r) \/ Commit(r)
    \/ \E checks \in SweepCheckLists, save_to_db \in BOOLEAN :
          /\ outcome[2] # "none"
          /\ sweep.outcome = "none"
          /\ SweepStart(checks, save_to_db)
    \/ /\ sweep.outcome = "reported"
       /\ sweep.prev = Null
       /\ SweepStart(sweep.checks, ~sweep.save_to_db)
    \/ RunCheck
    \/ SaveFlag
    \/ SweepCommit
    \/ SweepReturn

SpecDry == InitDry /\ [][NextDry]_vars

-----------------------------------------------------------------------------
(* SpecSweep: sweeps one after the other while ingestion loads             *)
(* observations and reviewers resolve flags.  The loads put two            *)
(* institutional sources of one country-year 51 points apart, 35 points    *)
(* apart or 5 points apart, so that a flag of one sweep is found again by  *)
(* the next with another severity, or is not found again.                  *)

MaxSweeps == 2

SweepUniverse ==
    {Obs("XAA", YearNew, "WVS", "institutional", Some(5504)),
     Obs("XAA", YearNew, "ANES", "institutional", Some(400)),
     Obs("XAA", YearNew, "ANES", "institutional", Some(2004)),
     Obs("XAA", YearNew, "ANES", "institutional", Some(5004))}

SweepLists ==
    {<<"cross_source", "coverage_gaps">>,
     <<"coverage_gaps", "coverage_gaps">>,
     <<"yoy_anomalies", "cross_source">>}

InitSweep ==
    /\ corpus \in CorporaOf(SweepUniverse, MaxObs) \ {<< >>}
    /\ table = << >>
    /\ clock = 0
    /\ InitRuns

NextSweep ==
    \/ \E o \in SweepUniverse :
          /\ sweep.pc = "idle"
          /\ LoadToDatabase(o)
    \/ \E key \in DOMAIN flagStore : ResolveFlag(key)
    \/ \E checks \in SweepLists, save_to_db \in BOOLEAN, output_csv \in BOOLEAN :
          /\ sweep.calls < MaxSweeps
          /\ SweepStartCsv(checks, save_to_db, output_csv)
    \/ RunCheck
    \/ SaveFlag
    \/ SweepCommit
    \/ SweepReturn

SpecSweep == InitSweep /\ [][NextSweep]_vars

-----------------------------------------------------------------------------
(* SpecLimit: the sample-size check on a corpus with more observations     *)
(* without sample_n than the LIMIT of its query returns.  Ninety-eight     *)
(* observations of seven sources and fourteen years, then three WVS        *)
(* observations of the year 2000, which the ORDER BY source, year leaves   *)
(* in no order: the LIMIT returns two of the three.  The sweep of the      *)
(* sample-size check runs up to MaxSweeps times.                           *)

LimitSources ==
    <<"ANES", "Afrobarometer", "ESS", "EVS", "GSS", "LiTS", "Reuters_DNR">>

\* The years of each source: two rows short of the LIMIT in all.
LimitYears == (MissingSampleLimit - 2) \div Len(LimitSources)

LimitCorpus ==
    [i \in 1..(Len(LimitSources) * LimitYears) |->
        Obs("XAA", 2000 + ((i - 1) % LimitYears),
            LimitSources[((i - 1) \div LimitYears) + 1],
            IF LimitSources[((i - 1) \div LimitYears) + 1] = "Reuters_DNR"
            THEN "media" ELSE "interpersonal",
            Some(5000))]
    \o <<Obs("XAA", 2000, "WVS", "interpersonal", Some(5000)),
         Obs("XAA", 2000, "WVS", "institutional", Some(5000)),
         Obs("XBB", 2000, "WVS", "interpersonal", Some(5000))>>

InitLimit ==
    /\ corpus = LimitCorpus
    /\ table = << >>
    /\ clock = 0
    /\ InitRuns

NextLimit ==
    \/ /\ sweep.calls < MaxSweeps
       /\ SweepStart(<<"sample_size">>, TRUE)
    \/ RunCheck
    \/ SaveFlag
    \/ SweepCommit

SpecLimit == InitLimit /\ [][NextLimit]_vars

-----------------------------------------------------------------------------
(* SpecChecks: one sweep of the year-over-year check or of the             *)
(* cross-source check over a corpus.  The series of the first have gaps of *)
(* 1, 4, 5 and 6 years and steps of 15, 25, 40 and 40.01 points; the       *)
(* country-years of the second have up to three sources 30, 30.01, 40 and  *)
(* 40.01 points apart, media sources 35 and 35.01 points apart, and        *)
(* governance sources 96 points apart.                                     *)

YoyUniverse ==
    {Obs("XAA", y, "WVS", "institutional", Some(s)) :
        y \in {YearNew - 6, YearNew - 5, YearNew - 1, YearNew},
        s \in {2000, 4500, 6000, 6001}}
    \cup {Obs("XAA", YearNew - 5, "GSS", "institutional", Some(9996)),
          Obs("XBB", YearNew - 5, "WVS", "institutional", Some(9996))}

CrossUniverse ==
    {Obs("XAA", YearNew, "WVS", "institutional", Some(s)) : s \in {2000, 3001}}
    \cup {Obs("XAA", YearNew, "ANES", "institutional", Some(s)) :
             s \in {5001, 6001}}
    \cup {Obs("XAA", YearNew, "GSS", "institutional", Some(s)) :
             s \in {3000, 6000}}
    \cup {Obs("XAA", YearNew, "Reuters_DNR", "media", Some(2000)),
          Obs("XAA", YearNew, "WVS", "media", Some(5500)),
          Obs("XAA", YearNew, "WVS", "media", Some(5501)),
          Obs("XAA", YearNew, "CPI", "governance", Some(400)),
          Obs("XAA", YearNew, "WGI", "governance", Some(9996)),
          Obs("XAA", YearNew - 1, "GSS", "institutional", Some(9996))}

InitChecks ==
    /\ corpus \in CorporaOf(YoyUniverse, MaxRows)
                  \cup CorporaOf(CrossUniverse, MaxRows)
    /\ table = << >>
    /\ clock = 0
    /\ InitRuns

NextChecks ==
    \/ \E check_name \in {"yoy_anomalies", "cross_source"},
          save_to_db \in BOOLEAN :
          /\ sweep.calls = 0
          /\ SweepStart(<<check_name>>, save_to_db)
    \/ RunCheck
    \/ SaveFlag
    \/ SweepCommit
    \/ SweepReturn

SpecChecks == InitChecks /\ [][NextChecks]_vars

-----------------------------------------------------------------------------
(* SpecSample: one sweep of the sample-size check over a corpus whose      *)
(* observations report 49, 50, 99, 100, 100000 or 100001 respondents, on   *)
(* the interpersonal and institutional pillars and on the financial trust  *)
(* type that the WVS job also computes from respondents.                   *)

SampleUniverse ==
    {ObsN("XAA", YearNew, "WVS", t, Some(5000), Some(n)) :
        t \in {"interpersonal", "financial"},
        n \in {49, 50, 99, 100, 100000, 100001}}
    \cup {ObsN("XAA", YearNew, "GSS", "institutional", Some(5000), Some(n)) :
             n \in {49, 50, 99, 100, 100000, 100001}}

InitSample ==
    /\ corpus \in CorporaOf(SampleUniverse, MaxRows)
    /\ table = << >>
    /\ clock = 0
    /\ InitRuns

NextSample ==
    \/ \E save_to_db \in BOOLEAN :
          /\ sweep.calls = 0
          /\ SweepStart(<<"sample_size">>, save_to_db)
    \/ RunCheck
    \/ SaveFlag
    \/ SweepCommit
    \/ SweepReturn

SpecSample == InitSample /\ [][NextSample]_vars

-----------------------------------------------------------------------------
(* SpecLists: one call of run_sweep with a list of up to MaxChecks names,  *)
(* registered or not, in any order and with repetitions, over a corpus     *)
(* where the cross-source check and the year-over-year check find an      *)
(* error, a warning or nothing and the coverage check finds its warnings.  *)

MaxChecks == 2

CheckNames == {"cross_source", "coverage_gaps", "yoy_anomalies", "unknown"}

RECURSIVE ListsOf(_, _)
ListsOf(S, n) ==
    IF n = 0 THEN {<< >>}
    ELSE ListsOf(S, n - 1) \cup
         {Append(l, x) : <<l, x>> \in
             {<<l, x>> \in ListsOf(S, n - 1) \X S : Len(l) = n - 1}}

ListUniverse ==
    {Obs("XAA", YearNew, "WVS", "institutional", Some(2000)),
     Obs("XAA", YearNew, "GSS", "institutional", Some(3000)),
     Obs("XAA", YearNew, "ANES", "institutional", Some(5001)),
     Obs("XAA", YearNew, "ANES", "institutional", Some(6001)),
     Obs("XAA", YearNew - 1, "WVS", "institutional", Some(6001))}

InitLists ==
    /\ corpus \in CorporaOf(ListUniverse, MaxRows)
    /\ table = << >>
    /\ clock = 0
    /\ InitRuns

\* main passes args.checks and `not args.dry_run`; a caller of run_sweep
\* passes any list.
NextLists ==
    \/ \E checks \in ListsOf(CheckNames, MaxChecks) \ {<< >>},
          save_to_db \in BOOLEAN :
          /\ sweep.calls = 0
          /\ SweepStart(checks, save_to_db)
    \/ RunCheck
    \/ SaveFlag
    \/ SweepCommit
    \/ SweepReturn

SpecLists == InitLists /\ [][NextLists]_vars

\* SpecListsFair: the same call with the lists over the year-over-year
\* check and an unknown name, on the corpora of two observations of one
\* series 40.01 points apart.  run_sweep is one thread of straight-line
\* code over a finite list: once called, it takes its next step until it
\* returns.
FairUniverse ==
    {Obs("XAA", YearNew, "WVS", "institutional", Some(2000)),
     Obs("XAA", YearNew - 1, "WVS", "institutional", Some(6001))}

InitListsFair ==
    /\ corpus \in CorporaOf(FairUniverse, MaxRows)
    /\ table = << >>
    /\ clock = 0
    /\ InitRuns

NextListsFair ==
    \/ \E checks \in ListsOf({"yoy_anomalies", "unknown"}, MaxChecks + 1)
                      \ {<< >>},
          save_to_db \in BOOLEAN :
          /\ sweep.calls = 0
          /\ SweepStart(checks, save_to_db)
    \/ RunCheck
    \/ SaveFlag
    \/ SweepCommit
    \/ SweepReturn

SweepSteps == RunCheck \/ SaveFlag \/ SweepCommit \/ SweepReturn

SpecListsFair ==
    InitListsFair /\ [][NextListsFair]_vars /\ WF_vars(SweepSteps)

-----------------------------------------------------------------------------
(* SpecFrame: aggregation runs of the three pillars, one after the other   *)
(* in any order and any number of times, over a corpus with observations   *)
(* of the three pillars for one country-year.  The table starts empty or   *)
(* with the row of that country-year as the governance pathway wrote it,   *)
(* with or without a sources_used map.                                     *)

FrameUniverse ==
    {Obs("XAA", YearNew, "WVS", "interpersonal", Some(2500)),
     Obs("XAA", YearNew, "GSS", "institutional", Some(4000)),
     Obs("XAA", YearNew, "Reuters_DNR", "media", Some(6000)),
     Obs("XAA", YearNew, "WVS", "media", Some(3337)),
     Obs("XBB", YearOld, "WVS", "interpersonal", Some(5504))}

\* The row of a country-year with its governance columns alone.
GovernanceRow(sources_used) ==
    [score        |-> [NullColumns EXCEPT !["governance"] = Some(500)],
     tier         |-> [NullColumns EXCEPT !["governance"] = Some("A")],
     ci_lower     |-> [NullColumns EXCEPT !["governance"] = Some(Float(4500))],
     ci_upper     |-> [NullColumns EXCEPT !["governance"] = Some(Float(5500))],
     sources_used |-> sources_used,
     computed_at  |-> 0]

FrameTables ==
    {<< >>,
     [k \in {<<"XAA", YearNew>>} |->
         GovernanceRow(Some(JsonOf("governance", <<"CPI", "WGI">>)))],
     [k \in {<<"XAA", YearNew>>} |-> GovernanceRow(Null)]}

InitFrame ==
    /\ corpus \in CorporaOf(FrameUniverse, MaxRows)
    /\ table \in FrameTables
    /\ clock = 0
    /\ InitRuns

NextFrame ==
    \/ \E p \in AggregatedPillars : Start(1, p, FALSE)
    \/ Write(1)
    \/ WriteFails(1)
    \/ Commit(1)

SpecFrame == InitFrame /\ [][NextFrame]_vars

-----------------------------------------------------------------------------
(* SpecEntry: runs of aggregate_pillars.py and of the standalone entry     *)
(* points aggregate_survey.py and aggregate_media.py, one after the other, *)
(* over a corpus with ranked sources, a different-scale source (ESS), an   *)
(* unranked source and an unweighted media source, into the tables of      *)
(* SpecFrame.                                                              *)

EntryUniverse ==
    {Obs("XAA", YearNew, "ESS", "institutional", Some(7000)),
     Obs("XAA", YearNew, "LiTS", "institutional", Some(4000)),
     Obs("XAA", YearNew, "Eurobarometer", "institutional", Some(5504)),
     Obs("XAA", YearOld, "WVS", "institutional", Some(2500)),
     Obs("XAA", YearNew, "Reuters_DNR", "media", Some(6000)),
     Obs("XAA", YearNew, "Afrobarometer", "media", Some(5000))}

InitEntry ==
    /\ corpus \in CorporaOf(EntryUniverse, MaxRows)
    /\ table \in FrameTables
    /\ clock = 0
    /\ InitRuns

NextEntry ==
    \/ \E p \in {"institutional", "media"} : Start(1, p, FALSE)
    \/ \E p \in {"institutional", "media"}, dry_run \in BOOLEAN :
          StartStandalone(1, p, dry_run)
    \/ Write(1)
    \/ WriteFails(1)
    \/ Commit(1)

SpecEntry == InitEntry /\ [][NextEntry]_vars

-----------------------------------------------------------------------------
(* SpecLock: a survey-pillar run and a media-pillar run, each on a         *)
(* connection of its own and started once, over a corpus with an           *)
(* institutional and a media observation for each of two years of one      *)
(* country.  The survey run writes the newer year first (ORDER BY iso3,    *)
(* year DESC), the media run the older year first (ORDER BY iso3, year).   *)

LockUniverse ==
    {Obs("XAA", YearNew, "WVS", "institutional", Some(5504)),
     Obs("XAA", YearOld, "WVS", "institutional", Some(4000)),
     Obs("XAA", YearNew, "Reuters_DNR", "media", Some(6000)),
     Obs("XAA", YearOld, "Reuters_DNR", "media", Some(3337))}

InitLock ==
    /\ corpus \in CorporaOf(LockUniverse, Cardinality(LockUniverse))
    /\ table = << >>
    /\ clock = 0
    /\ InitRuns

NextLock ==
    \/ /\ outcome[1] = "none"
       /\ Start(1, "institutional", FALSE)
    \/ /\ outcome[2] = "none"
       /\ Start(2, "media", FALSE)
    \/ \E r \in RunIds : Write(r)
    \/ \E r \in RunIds : WriteFails(r)
    \/ \E r \in RunIds : Commit(r)

SpecLock == InitLock /\ [][NextLock]_vars

-----------------------------------------------------------------------------
(* SpecIngest: ingestion runs into an empty table, through                 *)
(* BaseProcessor.run and through the main() of a job that loads what its   *)
(* process() returned.  The batches hold up to MaxBatch observations with  *)
(* scores of -0.1, 0, 100 and 100.1 for one key and 50 for another.        *)

MaxBatch == 2

IngestUniverse ==
    {Obs("XAA", YearNew, "EU-SILC", "interpersonal", Some(s)) :
        s \in {0 - 10, 0, 10000, 10010}}
    \cup {Obs("XAA", YearNew, "WVS", "institutional", Some(5000))}

InitIngest ==
    /\ corpus = << >>
    /\ table = << >>
    /\ clock = 0
    /\ InitRuns

NextIngest ==
    \E batch \in ListsOf(IngestUniverse, MaxBatch) :
        \/ ProcessorRun(batch)
        \/ JobMain(batch)

SpecIngest == InitIngest /\ [][NextIngest]_vars

-----------------------------------------------------------------------------
(* Properties of one run, stated on the corpus the run read *)

\* The sum of f[x] over the x of S.
RECURSIVE SumOver(_, _)
SumOver(S, f) ==
    IF S = {} THEN 0
    ELSE LET x == CHOOSE y \in S : TRUE
         IN  f[x] + SumOver(S \ {x}, f)

CountryYears(corp) == {<<corp[i].iso3, corp[i].year>> : i \in 1..Len(corp)}

\* The observations of key = <<iso3, year>> a survey run of pillar may use.
SurveyCandidates(corp, pillar, key) ==
    {o \in Range(corp) : /\ <<o.iso3, o.year>> = key
                         /\ o.trust_type = pillar
                         /\ o.score_0_100 # Null
                         /\ o.source \notin EXCLUDED_SURVEY_SOURCES}

\* The media observations of key = <<iso3, year>> with a score.
MediaPresent(corp, key) ==
    {o \in Range(corp) : /\ <<o.iso3, o.year>> = key
                         /\ o.trust_type = "media"
                         /\ o.score_0_100 # Null}

NominalSum(present) == SumOver(present, [o \in present |-> MediaWeight(o.source)])

ResultsAt(res, key) == {i \in 1..Len(res) : <<res[i].iso3, res[i].year>> = key}

RunHasRead(r, pillars) == outcome[r] # "none" /\ job[r].pillar \in pillars

\* C1: media aggregator.  For every country-year of the corpus read in which
\* a source with a nominal weight is present, each present source's
\* effective weight is nominal/available (120 stands for 1.0), the effective
\* weights sum to 1, and the one result of the country-year is the rounded
\* sum of nominal x score over available; scores 60 and 80 of the two 0.4
\* sources with the 0.2 source missing give 70.0.
C1_WeightRedistribution ==
    RunHasRead(1, {"media"}) =>
      \A key \in CountryYears(snapshot[1]) :
        LET present == MediaPresent(snapshot[1], key)
            avail   == NominalSum(present)
            srcs    == OrderRows(SelectSeq(snapshot[1],
                                           LAMBDA o : o \in present), FALSE)
            names   == [k \in 1..Len(srcs) |-> srcs[k].source]
        IN  avail > 0 =>
              /\ \A o \in present :
                    EffectiveWeight(o.source, names) * avail
                        = MediaWeight(o.source) * 120
              /\ SumOver(present, [o \in present |->
                                      EffectiveWeight(o.source, names)]) = 120
              /\ Cardinality(ResultsAt(results[1], key)) = 1
              /\ \A i \in ResultsAt(results[1], key) :
                    /\ results[1][i].score =
                         Round1(SumOver(present, [o \in present |->
                             MediaWeight(o.source) * The(o.score_0_100) * 120])
                           \div avail)
                    /\ ({<<o.source, The(o.score_0_100)>> : o \in present}
                          = {<<"Reuters_DNR", 6000>>, <<"Eurobarometer", 8000>>}
                        => results[1][i].score = 700)

\* C1 witness: a run blended Reuters_DNR 60 and Eurobarometer 80, WVS
\* missing, into 70.0, and a run redistributed unequal weights (0.4 and 0.2).
C1_Witness ==
    /\ RunHasRead(1, {"media"})
    /\ \E i \in 1..Len(results[1]) :
          /\ results[1][i].sources = <<"Eurobarometer", "Reuters_DNR">>
          /\ results[1][i].score = 700

C3_WinnerIsOrderIndependent ==
    RunHasRead(1, SurveyPillars) =>
      \A key \in CountryYears(snapshot[1]) :
        LET cands == SurveyCandidates(snapshot[1], job[1].pillar, key)
        IN  \A i \in ResultsAt(results[1], key) :
              \A o \in cands :
                \/ SurveyPriority(results[1][i].sources[1]) < SurveyPriority(o.source)
                \/ /\ SurveyPriority(results[1][i].sources[1]) = SurveyPriority(o.source)
                   /\ SourceOrd(results[1][i].sources[1]) <= SourceOrd(o.source)

\* C3 witness: GSS lies physically before ANES (both rank 3, nothing
\* better in the country-year) and ANES, first by name, won.
C3_Witness ==
    /\ RunHasRead(1, SurveyPillars)
    /\ \E a, b \in 1..Len(snapshot[1]) :
          /\ a < b
          /\ snapshot[1][a].source = "GSS"
          /\ snapshot[1][b].source = "ANES"
          /\ snapshot[1][a].year = snapshot[1][b].year
          /\ snapshot[1][a].iso3 = snapshot[1][b].iso3
          /\ \A o \in SurveyCandidates(snapshot[1], job[1].pillar,
                        <<snapshot[1][a].iso3, snapshot[1][a].year>>) :
                SurveyPriority(o.source) >= 3
          /\ \E i \in ResultsAt(results[1],
                        <<snapshot[1][a].iso3, snapshot[1][a].year>>) :
                results[1][i].sources = <<"ANES">>

-----------------------------------------------------------------------------
(* Properties of the CountryYear store under runs, loads and time *)

Scale == 100 * 12000

\* The pillars of row that hold a score.
WrittenPillars(row) == {p \in Pillars : row.score[p] # Null}

\* score (tenths), tier and bounds (fine units) satisfy the containment, and
\* a bound that is not clamped lies one margin from a value that rounds to
\* the score.
Contained(score, tier, lo, hi) ==
    /\ 0 <= lo
    /\ lo <= score * 1200
    /\ score * 1200 <= hi
    /\ hi <= Scale
    /\ lo > 0 => Round1(lo + Margin(tier) * 12000) = score
    /\ hi < Scale => Round1(hi - Margin(tier) * 12000) = score
    /\ (lo > 0 /\ hi < Scale) => hi - lo = 2 * Margin(tier) * 12000

RowContained(row) ==
    \A p \in WrittenPillars(row) :
        /\ row.tier[p] # Null /\ row.ci_lower[p] # Null /\ row.ci_upper[p] # Null
        /\ Contained(The(row.score[p]), The(row.tier[p]),
                     The(row.ci_lower[p]), The(row.ci_upper[p]))

\* C4: CI containment.  In every state reached by loads of observations
\* with scores in [0,100] and aggregation runs, every pillar written in a
\* committed row or in a row of an open transaction has
\* 0 <= ci_lower <= stored score <= ci_upper <= 100, the stored score being
\* the value rounded to one decimal and each bound either the end of the
\* scale or one tier margin (5, 10, 15) from the unrounded value.
C4_CIContainment ==
    /\ \A key \in DOMAIN table : RowContained(table[key])
    /\ \A r \in RunIds : \A key \in DOMAIN txn[r] : RowContained(txn[r][key])

\* A committed score of 99.96 stored as 100.0 with the upper bound clamped
\* to 100 next to a committed score of 0.04 stored as 0.0 with the lower
\* bound clamped to 0.
C4_Witness ==
    /\ \E key \in DOMAIN table :
          /\ table[key].score["institutional"] = Some(1000)
          /\ table[key].ci_upper["institutional"] = Some(Scale)
          /\ The(table[key].ci_lower["institutional"]) > 0
    /\ \E key \in DOMAIN table :
          /\ table[key].score["institutional"] = Some(0)
          /\ table[key].ci_lower["institutional"] = Some(0)

\* The columns of pillar in row, and its entry of sources_used.
PillarView(row, pillar) ==
    [score    |-> row.score[pillar],
     tier     |-> row.tier[pillar],
     ci_lower |-> row.ci_lower[pillar],
     ci_upper |-> row.ci_upper[pillar],
     sources  |-> IF row.sources_used # Null
                     /\ pillar \in DOMAIN The(row.sources_used)
                  THEN Some(The(row.sources_used)[pillar]) ELSE Null]

\* What a result writes into the columns of its pillar.
ResultView(res) ==
    [score    |-> Some(res.score),
     tier     |-> Some(res.tier),
     ci_lower |-> Some(res.ci_lower),
     ci_upper |-> Some(res.ci_upper),
     sources  |-> Some(res.sources)]

ResultKeys(res) == {<<res[i].iso3, res[i].year>> : i \in 1..Len(res)}

\* C5: atomic write per run (a run is one pillar's aggregation on its
\* connection).  While the run writes, the committed table is the one it
\* started from; a run whose write failed ends with the error at its
\* caller and the table exactly as before the run; a run that committed
\* has every row it resolved in the table with the run's values and has
\* left every other row as it was.
C5_AtomicWritePerRun ==
    /\ pc[1] = "writing" => (table = tableAtStart[1] /\ outcome[1] = "running")
    /\ outcome[1] = "error" =>
          (table = tableAtStart[1] /\ txn[1] = << >> /\ pc[1] = "idle")
    /\ outcome[1] = "committed" =>
          /\ txn[1] = << >>
          /\ DOMAIN table = DOMAIN tableAtStart[1] \cup ResultKeys(results[1])
          /\ \A i \in 1..Len(results[1]) :
                PillarView(table[<<results[1][i].iso3, results[1][i].year>>],
                           job[1].pillar) = ResultView(results[1][i])
          /\ \A key \in DOMAIN tableAtStart[1] \ ResultKeys(results[1]) :
                table[key] = tableAtStart[1][key]

\* A run of two resolved rows whose second write failed after the first
\* had been executed, over a table an earlier run had filled.
C5_Witness ==
    /\ outcome[1] = "error"
    /\ Len(results[1]) = 2
    /\ nextIdx[1] = 2
    /\ tableAtStart[1] # << >>
    /\ \E i \in 1..Len(results[1]) :
          LET key == <<results[1][i].iso3, results[1][i].year>>
          IN  \/ key \notin DOMAIN table
              \/ PillarView(table[key], job[1].pillar) # ResultView(results[1][i])

\* What a run of job derives from corpus corp.
Derived(corp, j) == ComputeResults(corp, j.pillar, CurrentYear(j.now))

\* C6: no drift from the corpus.  After a run of pillar P has committed,
\* every row of the table that holds a P score holds the P score, tier,
\* bounds and sources_used[P] of the one result the resolver or the
\* weighted aggregator derives for that country-year from the corpus the
\* run read, rows written by earlier runs included, and every derived
\* result is in the table.
C6_NoDriftFromCorpus ==
    outcome[1] = "committed" =>
      LET P   == job[1].pillar
          res == Derived(snapshot[1], job[1])
      IN  /\ \A key \in DOMAIN table :
                table[key].score[P] # Null =>
                  /\ Cardinality(ResultsAt(res, key)) = 1
                  /\ \A i \in ResultsAt(res, key) :
                        PillarView(table[key], P) = ResultView(res[i])
          /\ ResultKeys(res) \subseteq DOMAIN table

\* A committed run that replaced both the score and the source list an earlier
\* run had written for a country-year.
C6_Witness ==
    /\ outcome[1] = "committed"
    /\ \E key \in DOMAIN tableAtStart[1] :
          /\ tableAtStart[1][key].score[job[1].pillar] # Null
          /\ PillarView(tableAtStart[1][key], job[1].pillar).score
                # PillarView(table[key], job[1].pillar).score
          /\ PillarView(tableAtStart[1][key], job[1].pillar).sources
                # PillarView(table[key], job[1].pillar).sources

\* The rows of tbl without computed_at.
StripComputedAt(tbl) ==
    [key \in DOMAIN tbl |->
        [score        |-> tbl[key].score,
         tier         |-> tbl[key].tier,
         ci_lower     |-> tbl[key].ci_lower,
         ci_upper     |-> tbl[key].ci_upper,
         sources_used |-> tbl[key].sources_used]]

\* C7: idempotence of re-run.  A run of a pillar that commits after an
\* earlier committed run of the same pillar, with no load in between and in
\* the same reference year, leaves the table with the rows it had, equal in
\* every field but computed_at, sources_used included.
C7_RerunIsIdempotent ==
    (outcome[1] = "committed" /\ job[1].rerun) =>
        StripComputedAt(table) = StripComputedAt(tableAtStart[1])

\* A committed re-run at a later time of the same year, which moved
\* computed_at of a row it rewrote.
C7_Witness ==
    /\ outcome[1] = "committed"
    /\ job[1].rerun
    /\ Len(results[1]) > 0
    /\ \E key \in DOMAIN tableAtStart[1] :
          table[key].computed_at # tableAtStart[1][key].computed_at

-----------------------------------------------------------------------------
(* Absence of data *)

\* The country-years of corp the run of pillar has nothing to resolve for.
AbsentKeys(corp, pillar) ==
    {key \in CountryYears(corp) :
        IF pillar = "media"
        THEN NominalSum(MediaPresent(corp, key)) = 0
        ELSE SurveyCandidates(corp, pillar, key) = {}}

\* No column of pillar is written at key in tbl.
NothingWritten(tbl, pillar, key) ==
    key \in DOMAIN tbl =>
        /\ tbl[key].score[pillar] = Null
        /\ tbl[key].tier[pillar] = Null
        /\ tbl[key].ci_lower[pillar] = Null
        /\ tbl[key].ci_upper[pillar] = Null

\* C10: data absence is not an error.  A run leaves a country-year whose
\* only observations of the survey pillar come from excluded-scale sources,
\* or a media country-year without a weighted source, without a result and
\* without score, tier or bounds of the pillar in the table or in its open
\* transaction (absent, not zero); a run of a pillar with no eligible
\* observation at all resolves zero rows, writes none and ends without an
\* error.
C10_AbsenceIsNotAnError ==
    RunHasRead(1, AggregatedPillars) =>
      LET P == job[1].pillar
      IN  /\ \A key \in AbsentKeys(snapshot[1], P) :
                /\ ResultsAt(results[1], key) = {}
                /\ NothingWritten(table, P, key)
                /\ NothingWritten(txn[1], P, key)
          /\ AbsentKeys(snapshot[1], P) = CountryYears(snapshot[1]) =>
                /\ results[1] = << >>
                /\ stats[1].country_years_updated = 0
                /\ table = << >>
                /\ txn[1] = << >>
                /\ outcome[1] # "error"

\* A committed institutional run over a corpus holding a country-year with
\* nothing but an ESS observation next to a country-year it resolved: the
\* second is in the table, the first is not.
C10_Witness ==
    /\ outcome[1] = "committed"
    /\ job[1].pillar = "institutional"
    /\ Len(results[1]) = 1
    /\ \E key \in AbsentKeys(snapshot[1], "institutional") :
          /\ \E o \in Range(snapshot[1]) :
                /\ <<o.iso3, o.year>> = key
                /\ o.source = "ESS"
                /\ o.trust_type = "institutional"
                /\ o.score_0_100 # Null
          /\ key \notin DOMAIN table
    /\ DOMAIN table = ResultKeys(results[1])

-----------------------------------------------------------------------------
(* Two concurrent runs *)

\* What the committed runs of pillar resolved for key.
CommittedViews(key, pillar) ==
    UNION {{ResultView(results[r][i]) : i \in ResultsAt(results[r], key)} :
             r \in {x \in RunIds : /\ outcome[x] = "committed"
                                    /\ job[x].pillar = pillar}}

\* The two runs resolved key with different scores and tiers.
Disagree(key) ==
    \E i \in ResultsAt(results[1], key), j \in ResultsAt(results[2], key) :
        /\ results[1][i].score # results[2][j].score
        /\ results[1][i].tier # results[2][j].tier

\* Two runs of one pillar read different snapshots, both started from the
\* same committed table (neither saw the other's commit), both committed,
\* and they disagree on a country-year.
Raced ==
    /\ outcome[1] = "committed" /\ outcome[2] = "committed"
    /\ job[1].pillar = job[2].pillar
    /\ snapshot[1] # snapshot[2]
    /\ tableAtStart[1] = tableAtStart[2]
    /\ \E key \in DOMAIN table : Disagree(key)

\* The committed row of key holds the score of one run with the tier of
\* the other.
Mixed(key) ==
    \E a \in RunIds : \E b \in RunIds \ {a} :
        \E i \in ResultsAt(results[a], key), j \in ResultsAt(results[b], key) :
            /\ results[a][i].tier # results[b][j].tier
            /\ results[a][i].score # results[b][j].score
            /\ table[key].score[job[a].pillar] = Some(results[a][i].score)
            /\ table[key].tier[job[a].pillar] = Some(results[b][j].tier)

\* C8 as stated: when two runs of a pillar have raced on a country-year
\* from different snapshots, a committed row holds the tier computed by one
\* run together with the score of the other.
C8_RaceMixesScoreAndTier ==
    Raced => \E key \in DOMAIN table : Mixed(key)

\* C8: concurrent runs.  In every interleaving of two unsynchronised runs,
\* loads and failures, the score, tier, bounds and sources_used entry of a
\* pillar in a committed row are those one committed run resolved for the
\* country-year, all from that one run; no committed row is mixed.  What
\* the race decides is which run's values the row holds: the last to
\* commit, which may be the one that read the older snapshot.
C8_RowsComeFromOneRun ==
    \A key \in DOMAIN table :
        /\ ~Mixed(key)
        /\ \A p \in WrittenPillars(table[key]) :
              PillarView(table[key], p) \in CommittedViews(key, p)

\* The lost update: after a race the run that read the current corpus has
\* committed, and the committed row holds what the other run resolved from
\* the older snapshot.
C8_Witness ==
    /\ Raced
    /\ \E fresh \in RunIds : \E stale \in RunIds \ {fresh} :
          /\ snapshot[fresh] = corpus
          /\ snapshot[stale] # corpus
          /\ \E key \in DOMAIN table :
                /\ Disagree(key)
                /\ \E j \in ResultsAt(results[stale], key) :
                      PillarView(table[key], job[stale].pillar)
                          = ResultView(results[stale][j])

-----------------------------------------------------------------------------
(* The two flows *)

\* The table a persisting run of job j leaves when it runs alone on corp,
\* starting from tbl.
RECURSIVE ApplyResults(_, _, _, _)
ApplyResults(tbl, res, pillar, now) ==
    IF res = << >> THEN tbl
    ELSE ApplyResults(Put(tbl, <<Head(res).iso3, Head(res).year>>,
                          UpsertRow(tbl, pillar, Head(res), now)),
                      Tail(res), pillar, now)

RunAlone(tbl, corp, j) == ApplyResults(tbl, Derived(corp, j), j.pillar, j.now)

\* The flags a sweep of the check list finds when it runs alone on corp.
RECURSIVE FlagsOf(_, _)
FlagsOf(checks, corp) ==
    IF checks = << >> THEN << >>
    ELSE (IF Head(checks) \in CHECKS THEN CheckFlags(Head(checks), corp)
          ELSE << >>) \o FlagsOf(Tail(checks), corp)

\* The flag store a sweep leaves when it saves flags alone, from store.
RECURSIVE ApplyFlags(_, _, _)
ApplyFlags(store, flags, now) ==
    IF flags = << >> THEN store
    ELSE ApplyFlags(IF Head(flags).observation_id = 0 THEN store
                    ELSE Put(store, FlagKey(Head(flags)),
                             UpsertFlag(store, Head(flags), now)),
                    Tail(flags), now)

SweepAlone(store, corp, sw) ==
    IF sw.save_to_db THEN ApplyFlags(store, FlagsOf(sw.checks, corp), sw.now)
    ELSE store

RunIsOver == outcome[1] \in {"committed", "returned"}

SweepIsOver == sweep.outcome = "reported"

\* C9: independence of the two flows.  In every interleaving of one
\* aggregation run and one sweep over a corpus, the corpus stays as it was
\* read, the CountryYear table changes by nothing but the run's commit and
\* the Flag store by nothing but the sweep's commit, and once both are over
\* the table is the one the run leaves when it runs alone and the Flag
\* store the one the sweep leaves when it runs alone, which is what either
\* sequential order gives.
C9_FlowsAreIndependent ==
    /\ outcome[1] # "none" => snapshot[1] = corpus
    /\ outcome[1] # "committed" => table = << >>
    /\ ~SweepIsOver => flagStore = << >>
    /\ RunIsOver => table = RunAlone(<< >>, corpus, job[1])
    /\ SweepIsOver => flagStore = SweepAlone(<< >>, corpus, sweep)
    /\ (RunIsOver /\ SweepIsOver) =>
          /\ RunAlone(table, corpus, job[1]) = table
          /\ SweepAlone(flagStore, corpus, sweep) = flagStore

\* Both are over after the sweep ran a check or saved a flag between the
\* run's SELECT and its commit; the run has written rows and the sweep has
\* flagged an observation the run resolved its score from.
C9_Witness ==
    /\ RunIsOver /\ SweepIsOver
    /\ sweep.overlapped
    /\ table # << >>
    /\ \E key \in DOMAIN flagStore :
          \E i \in 1..Len(results[1]) :
              /\ corpus[key[1]].trust_type = job[1].pillar
              /\ corpus[key[1]].iso3 = results[1][i].iso3
              /\ corpus[key[1]].year = results[1][i].year
              /\ <<corpus[key[1]].source>> = results[1][i].sources

-----------------------------------------------------------------------------
(* Tier classifiers *)

\* The tier the survey rule gives a source of the rank at the age.
SurveyTierOf(rank, age) ==
    CASE rank <= 3 /\ age <= 3 -> "A"
      [] rank <= 3 /\ age \in {4, 5} -> "B"
      [] rank \in {4, 5} /\ age <= 3 -> "B"
      [] OTHER -> "C"

\* C11: survey tier classifier.  Every result of a survey run, and every
\* row the run wrote, carries the tier that the rank of the winning source
\* and the age (reference year - observation year) determine: rank <= 3
\* gives A up to age 3, B at age 4 or 5, C beyond; rank 4 or 5 gives B up
\* to age 3 and C beyond; any other source gives C.  The classifier gives
\* that tier for every source and every age.
C11_SurveyTierClassifier ==
    /\ \A s \in Range(SourceNames) \cup {"unlisted"} :
          \A age \in (0 - 1)..(MaxAge + 1) :
              get_survey_confidence_tier(s, age)
                  = SurveyTierOf(SurveyPriority(s), age)
    /\ RunHasRead(1, SurveyPillars) =>
          \A i \in 1..Len(results[1]) :
              LET res == results[1][i]
                  age == CurrentYear(job[1].now) - res.year
                  key == <<res.iso3, res.year>>
              IN  /\ res.tier = SurveyTierOf(SurveyPriority(res.sources[1]), age)
                  /\ key \in DOMAIN table =>
                        table[key].tier[job[1].pillar] = Some(res.tier)

\* A committed survey run wrote tier B for a rank 5 source three years old.
C11_Witness ==
    /\ outcome[1] = "committed"
    /\ job[1].pillar = "institutional"
    /\ \E key \in DOMAIN table :
          /\ key[2] = BaseYear - 3
          /\ table[key].tier["institutional"] = Some("B")
          /\ The(table[key].sources_used)["institutional"] = <<"LiTS">>

\* The tier the media rule gives a set of sources at the age.
MediaTierOf(srcs, age) ==
    LET annual == srcs \cap {"Reuters_DNR", "Eurobarometer"} # {}
    IN  IF annual /\ age <= 1 THEN "A"
        ELSE IF (annual /\ age <= 2) \/ ("WVS" \in srcs /\ age <= 3) THEN "B"
        ELSE "C"

\* The lists of one or two sources.
SourceLists(S) == UNION {[1..n -> S] : n \in 1..2}

\* C12: media tier classifier.  Every result of a media run, and every row
\* the run wrote, carries the tier that the set of its sources and the age
\* determine: A when Reuters_DNR or Eurobarometer is in the set and the
\* age is at most 1; otherwise B when one of them is in the set and the
\* age is at most 2, or WVS is in the set and the age is at most 3;
\* otherwise C.  The classifier gives that tier for every list of sources
\* and every age.
C12_MediaTierClassifier ==
    /\ \A srcs \in SourceLists(TierMediaSources) :
          \A age \in (0 - 1)..(MaxAge + 1) :
              get_media_confidence_tier(srcs, BaseYear - age, BaseYear)
                  = MediaTierOf(Range(srcs), age)
    /\ RunHasRead(1, {"media"}) =>
          \A i \in 1..Len(results[1]) :
              LET res == results[1][i]
                  age == CurrentYear(job[1].now) - res.year
                  key == <<res.iso3, res.year>>
              IN  /\ res.tier = MediaTierOf(Range(res.sources), age)
                  /\ key \in DOMAIN table =>
                        table[key].tier["media"] = Some(res.tier)

\* A committed media run wrote tier B for WVS next to an unweighted source,
\* three years old.
C12_Witness ==
    /\ outcome[1] = "committed"
    /\ job[1].pillar = "media"
    /\ \E key \in DOMAIN table :
          /\ key[2] = BaseYear - 3
          /\ table[key].tier["media"] = Some("B")
          /\ The(table[key].sources_used)["media"] = <<"Afrobarometer", "WVS">>

\* A is 1, B is 2, C is 3: a greater number is a worse tier.
TierRank(tier) == IF tier = "A" THEN 1 ELSE IF tier = "B" THEN 2 ELSE 3

Ages == (0 - 1)..(MaxAge + 1)

\* C13: tier monotonicity.  For a fixed source (survey) or a fixed list of
\* sources (media) and ages a1 <= a2 the tier at a2 is never better than
\* the tier at a1; and the tier a run gave a result is never better than
\* the tier the classifier gives the same sources at any smaller age.
C13_TierMonotoneInAge ==
    /\ \A a1 \in Ages, a2 \in Ages :
          a1 <= a2 =>
            /\ \A s \in Range(SourceNames) \cup {"unlisted"} :
                  TierRank(get_survey_confidence_tier(s, a1))
                      <= TierRank(get_survey_confidence_tier(s, a2))
            /\ \A srcs \in SourceLists(TierMediaSources) :
                  TierRank(get_media_confidence_tier(srcs, BaseYear - a1, BaseYear))
                      <= TierRank(get_media_confidence_tier(srcs, BaseYear - a2,
                                                            BaseYear))
    /\ RunHasRead(1, AggregatedPillars) =>
          \A i \in 1..Len(results[1]) :
              LET res == results[1][i]
                  ref == CurrentYear(job[1].now)
              IN  \A a \in {x \in Ages : x <= ref - res.year} :
                      TierRank(res.tier) >=
                          TierRank(IF job[1].pillar = "media"
                                   THEN get_media_confidence_tier(res.sources,
                                                                  ref - a, ref)
                                   ELSE get_survey_confidence_tier(res.sources[1],
                                                                   a))

\* A committed survey run wrote tier B for WVS five years old: the tier a
\* younger WVS observation gets is A.
C13_Witness ==
    /\ outcome[1] = "committed"
    /\ job[1].pillar = "institutional"
    /\ \E key \in DOMAIN table :
          /\ key[2] = BaseYear - 5
          /\ table[key].tier["institutional"] = Some("B")
          /\ The(table[key].sources_used)["institutional"] = <<"WVS">>
          /\ get_survey_confidence_tier("WVS", 3) = "A"

-----------------------------------------------------------------------------
(* Dry run *)

\* A step of run r: one of the variables of the run changes.
StepOfRun(r) ==
    <<pc[r], job[r], nextIdx[r], txn[r], outcome[r], results[r]>>
        # <<pc'[r], job'[r], nextIdx'[r], txn'[r], outcome'[r], results'[r]>>

\* Every step a dry run takes leaves the table, the open transactions and
\* the Flag store as they were, and the run is back to idle after it.
DryRunStepsKeepTable ==
    \A r \in RunIds :
        (StepOfRun(r) /\ job'[r].dry_run) =>
            /\ table' = table
            /\ txn' = txn
            /\ flagStore' = flagStore
            /\ pc'[r] = "idle"

\* Every step a sweep with save_to_db false takes leaves the Flag store,
\* the table and the sweep's transaction as they were.
DrySweepStepsKeepStore ==
    (sweep' # sweep /\ ~sweep'.save_to_db) =>
        /\ flagStore' = flagStore
        /\ table' = table
        /\ sweep'.txn = << >>

\* A dry run and a persisting run of one pillar over one corpus in one
\* year hold the same statistics.
DryRunSameStats ==
    \A a \in RunIds : \A b \in RunIds \ {a} :
        (/\ outcome[a] # "none" /\ outcome[b] # "none"
         /\ job[a].dry_run /\ ~job[b].dry_run
         /\ job[a].pillar = job[b].pillar
         /\ snapshot[a] = snapshot[b]
         /\ CurrentYear(job[a].now) = CurrentYear(job[b].now))
        => /\ stats[a] = stats[b]
           /\ results[a] = results[b]

\* A sweep that does not save and a sweep of the same check list that
\* saves return the same summary, and the one that does not save leaves
\* the Flag store it found.
DrySweepSameReport ==
    (sweep.outcome = "reported" /\ sweep.prev # Null) =>
        /\ (The(sweep.prev).checks = sweep.checks
            /\ The(sweep.prev).save_to_db # sweep.save_to_db)
           => The(sweep.prev).report = sweep.report
        /\ ~sweep.save_to_db => sweep.storeAtEnd = sweep.storeAtStart
        /\ ~The(sweep.prev).save_to_db
              => The(sweep.prev).storeAtEnd = The(sweep.prev).storeAtStart

\* C14: a dry run persists nothing.  An aggregation run with dry_run set
\* and a sweep with save_to_db false change neither the CountryYear table
\* nor the Flag store in any of their steps, and they return the same
\* statistics (countries, country-years, source counts, tier counts) and
\* the same summary (total, errors, warnings, count by check) as the
\* persisting run or sweep over the same corpus.
C14_DryRunPersistsNothing ==
    /\ [][DryRunStepsKeepTable /\ DrySweepStepsKeepStore]_vars
    /\ [](DryRunSameStats /\ DrySweepSameReport)

\* A dry run that computed results and a persisting run of the same
\* pillar that committed rows, followed by a saving sweep that stored
\* flags and a sweep of the same checks that did not save.
C14_Witness ==
    /\ \E a \in RunIds : \E b \in RunIds \ {a} :
          /\ outcome[a] = "dry_run" /\ results[a] # << >>
          /\ outcome[b] = "committed" /\ table # << >>
          /\ job[a].pillar = job[b].pillar
    /\ sweep.outcome = "reported" /\ sweep.prev # Null
    /\ ~sweep.save_to_db /\ sweep.all_flags # << >>
    /\ The(sweep.prev).save_to_db
    /\ flagStore # << >>

-----------------------------------------------------------------------------
(* The Flag store *)

\* The keys save_flags_to_db upserts for a list of flags.
SavedKeys(flags) ==
    {FlagKey(flags[k]) : k \in {j \in 1..Len(flags) :
                                    flags[j].observation_id # 0}}

\* The last flag of the list with key k.
LastFlag(flags, k) ==
    flags[CHOOSE j \in 1..Len(flags) :
            /\ FlagKey(flags[j]) = k
            /\ \A i \in (j + 1)..Len(flags) : FlagKey(flags[i]) # k]

\* Two persisting sweeps of one check list have returned one after the
\* other.
SameSweepTwice ==
    /\ sweep.outcome = "reported" /\ sweep.save_to_db
    /\ sweep.prev # Null
    /\ The(sweep.prev).save_to_db
    /\ The(sweep.prev).checks = sweep.checks

\* C15: flag upsert idempotence.  When the same persisting sweep has run
\* twice on an unchanged corpus, the Flag store holds after the second run
\* exactly the keys (observation_id, flag_type) it held after the first.
C15_SecondRunAddsNoRow ==
    SameSweepTwice =>
        DOMAIN sweep.storeAtEnd = DOMAIN The(sweep.prev).storeAtEnd

\* The step in which a persisting sweep returns: save_flags_to_db has
\* committed, or has returned at once for an empty list.
PersistingSweepReturns ==
    /\ sweep.pc = "running" /\ sweep'.pc = "idle"
    /\ sweep.save_to_db

\* C16: re-flag clears resolution.  When a persisting sweep returns, every
\* key (observation_id, flag_type) it produced that was in the Flag store
\* is still one row of the store, with the severity and the details of the
\* flag the sweep produced and resolved_at NULL, whatever resolved_at was;
\* and the store has gained no key but the produced ones.
C16_ReflagClearsResolution ==
    [][PersistingSweepReturns =>
          /\ DOMAIN flagStore'
                = DOMAIN flagStore \cup SavedKeys(sweep.all_flags)
          /\ \A k \in SavedKeys(sweep.all_flags) \cap DOMAIN flagStore :
                /\ flagStore'[k].severity
                      = LastFlag(sweep.all_flags, k).severity
                /\ flagStore'[k].details
                      = LastFlag(sweep.all_flags, k).details
                /\ flagStore'[k].resolved_at = Null]_vars

\* A persisting sweep has returned after it found again, with another
\* severity, a flag that was marked resolved when the sweep was called.
C16_Witness ==
    /\ sweep.outcome = "reported" /\ sweep.save_to_db
    /\ \E k \in SavedKeys(sweep.all_flags) \cap DOMAIN sweep.storeAtStart :
          /\ sweep.storeAtStart[k].resolved_at # Null
          /\ sweep.storeAtStart[k].severity
                # LastFlag(sweep.all_flags, k).severity
          /\ flagStore[k].resolved_at = Null
          /\ flagStore[k].severity = LastFlag(sweep.all_flags, k).severity

\* C17: the sweep never auto-resolves.  In every step of a sweep, every
\* row of the Flag store stays in the store, a row whose key the sweep did
\* not produce stays as it is, and no row comes out of the step with a
\* resolved_at that is not NULL unless it went into the step as it is.
C17_SweepNeverResolves ==
    [][(sweep' # sweep) =>
          /\ \A k \in DOMAIN flagStore :
                /\ k \in DOMAIN flagStore'
                /\ k \notin SavedKeys(sweep'.all_flags)
                      => flagStore'[k] = flagStore[k]
          /\ \A k \in DOMAIN flagStore' :
                flagStore'[k].resolved_at # Null
                   => k \in DOMAIN flagStore /\ flagStore'[k] = flagStore[k]]_vars

\* A persisting sweep has run the cross-source check again and returned,
\* and a cross_source flag of the sweep before it, which this sweep did
\* not find, is in the store as it was, unresolved.
C17_Witness ==
    /\ sweep.outcome = "reported" /\ sweep.save_to_db
    /\ sweep.prev # Null
    /\ \E j \in 1..Len(sweep.checks) : sweep.checks[j] = "cross_source"
    /\ \E k \in DOMAIN flagStore \ SavedKeys(sweep.all_flags) :
          /\ k \in SavedKeys(The(sweep.prev).all_flags)
          /\ flagStore[k] = sweep.storeAtStart[k]
          /\ flagStore[k].resolved_at = Null

-----------------------------------------------------------------------------
(* Coverage-level flags *)

\* The positions of the flags with the sentinel observation_id 0.
SentinelFlags(flags) ==
    {k \in 1..Len(flags) : flags[k].observation_id = 0}

\* How many times a check is named in the list of checks.
TimesNamed(checks, check_name) ==
    Cardinality({j \in 1..Len(checks) : checks[j] = check_name})

-----------------------------------------------------------------------------
(* The checks *)

\* The sweep has run the one check it was called with.
HasRun(check_name) ==
    /\ sweep.outcome # "none"
    /\ sweep.checks = <<check_name>>
    /\ sweep.todo = << >>

\* The ids of the flags of a list, and the flags of one id.
FlaggedIds(flags) == {flags[k].observation_id : k \in 1..Len(flags)}

FlagsOn(flags, id) == {k \in 1..Len(flags) : flags[k].observation_id = id}

SameSeries(a, b) ==
    /\ a.iso3 = b.iso3 /\ a.source = b.source /\ a.trust_type = b.trust_type

\* j is the observation right before i in i's series: earlier, with no
\* observation of the series in between.
Predecessor(corp, i, j) ==
    /\ SameSeries(corp[i], corp[j])
    /\ corp[j].year < corp[i].year
    /\ ~\E k \in 1..Len(corp) :
          /\ SameSeries(corp[i], corp[k])
          /\ corp[j].year < corp[k].year
          /\ corp[k].year < corp[i].year

\* The difference of the scores of two observations, in centipoints.
ScoreDiff(corp, i, j) ==
    Abs(The(corp[i].score_0_100) - The(corp[j].score_0_100))

\* C19: year-over-year check.  An observation is flagged yoy_anomaly
\* exactly when the observation right before it in its (iso3, source,
\* trust_type) series is at most 5 years earlier and more than 25 points
\* away; it is flagged once, with error when that difference is above 40
\* points and warning otherwise, whatever the differences to the earlier
\* observations of the series are.
C19_YoyComparesWithPredecessor ==
    HasRun("yoy_anomalies") =>
        LET fl == sweep.all_flags
        IN  /\ \A k \in 1..Len(fl) : fl[k].flag_type = "yoy_anomaly"
            /\ \A i \in 1..Len(corpus) :
                  LET hit == {j \in 1..Len(corpus) :
                                 /\ Predecessor(corpus, i, j)
                                 /\ corpus[i].year - corpus[j].year <= 5
                                 /\ ScoreDiff(corpus, i, j) > 2500}
                  IN  /\ i \in FlaggedIds(fl) <=> hit # {}
                      /\ Cardinality(FlagsOn(fl, i)) <= 1
                      /\ \A k \in FlagsOn(fl, i) : \A j \in hit :
                            fl[k].severity =
                                IF ScoreDiff(corpus, i, j) > 4000
                                THEN "error" ELSE "warning"

\* A series of three observations: the last is within 25 points of the one
\* before it and more than 25 points from the first, and is not flagged;
\* the one before it is flagged.
C19_Witness ==
    /\ HasRun("yoy_anomalies")
    /\ \E i \in 1..Len(corpus), j \in 1..Len(corpus), h \in 1..Len(corpus) :
          /\ Predecessor(corpus, i, j) /\ Predecessor(corpus, j, h)
          /\ ScoreDiff(corpus, i, j) <= 2500
          /\ ScoreDiff(corpus, i, h) > 2500
          /\ corpus[i].year - corpus[h].year <= 5
          /\ i \notin FlaggedIds(sweep.all_flags)
          /\ j \in FlaggedIds(sweep.all_flags)

\* The observations i conflicts with as the higher-scoring member: another
\* source of the same iso3, year and trust_type, not governance, more than
\* 30 points (media: 35) below.
ConflictsBelow(corp, i) ==
    {j \in 1..Len(corp) :
        /\ corp[j].iso3 = corp[i].iso3
        /\ corp[j].year = corp[i].year
        /\ corp[j].trust_type = corp[i].trust_type
        /\ corp[j].source # corp[i].source
        /\ corp[i].trust_type # "governance"
        /\ The(corp[i].score_0_100) > The(corp[j].score_0_100)
        /\ ScoreDiff(corp, i, j) >
              (IF corp[i].trust_type = "media" THEN 3500 ELSE 3000)}

\* C20: cross-source check.  The observations flagged cross_source are
\* exactly those that are the higher-scoring member of a pair of sources of
\* one (iso3, year, trust_type), not governance, more than 30 points apart
\* (media: 35); each is flagged once, with error when the difference the
\* flag reports is above 40 points and warning otherwise, the difference
\* reported being one of its conflicts and the largest of them.
C20_CrossSourceFlagsHigherOnce ==
    HasRun("cross_source") =>
        LET fl == sweep.all_flags
        IN  /\ \A k \in 1..Len(fl) : fl[k].flag_type = "cross_source"
            /\ \A i \in 1..Len(corpus) :
                  /\ i \in FlaggedIds(fl) <=> ConflictsBelow(corpus, i) # {}
                  /\ Cardinality(FlagsOn(fl, i)) <= 1
                  /\ corpus[i].trust_type = "governance"
                        => i \notin FlaggedIds(fl)
                  /\ \A k \in FlagsOn(fl, i) :
                        /\ fl[k].details.other \in ConflictsBelow(corpus, i)
                        /\ fl[k].details.change
                              = ScoreDiff(corpus, i, fl[k].details.other)
                        /\ \A j \in ConflictsBelow(corpus, i) :
                              ScoreDiff(corpus, i, j) <= fl[k].details.change
                        /\ fl[k].severity =
                              IF fl[k].details.change > 4000
                              THEN "error" ELSE "warning"

\* An observation is more than 30 points above two other sources, one of
\* them more than 40 points below, and has one flag, an error; no other
\* observation of the corpus is flagged.
C20_Witness ==
    /\ HasRun("cross_source")
    /\ Len(sweep.all_flags) = 1
    /\ \E i \in 1..Len(corpus) :
          /\ Cardinality(ConflictsBelow(corpus, i)) = 2
          /\ \E j \in ConflictsBelow(corpus, i) :
                ScoreDiff(corpus, i, j) <= 4000
          /\ sweep.all_flags[1].observation_id = i
          /\ sweep.all_flags[1].severity = "error"

-----------------------------------------------------------------------------
(* The sample-size check *)

\* The severities of the sample_size flags a list holds on an observation.
SampleSeverities(flags, id) ==
    {flags[k].severity : k \in
        {j \in FlagsOn(flags, id) : flags[j].flag_type = "sample_size"}}

\* C21: when the sweep has run the sample-size check, every observation
\* that reports fewer than 100 respondents is flagged sample_size, as an
\* error below 50 and as a warning from 50 to 99; every observation that
\* reports more than 100,000 is flagged sample_size as a warning; and an
\* observation that reports 100 to 100,000 has no sample_size flag.
C21_SampleSizeThresholds ==
    HasRun("sample_size") =>
        \A i \in 1..Len(corpus) :
            corpus[i].sample_n # Null =>
                LET n == The(corpus[i].sample_n)
                    severities == SampleSeverities(sweep.all_flags, i)
                IN  /\ n < 50 => severities = {"error"}
                    /\ (50 <= n /\ n < 100) => severities = {"warning"}
                    /\ n > 100000 => severities = {"warning"}
                    /\ (100 <= n /\ n <= 100000) => severities = {}

\* The observations the missing-sample query is about: a survey-type
\* pillar, no sample_n, a source other than OECD and Eurobarometer.
MissingSampleExpected(corp) ==
    {i \in 1..Len(corp) :
        /\ corp[i].sample_n = Null
        /\ corp[i].trust_type \in {"interpersonal", "institutional", "media"}
        /\ corp[i].source \notin {"OECD", "Eurobarometer"}}

\* C22: when the sweep has run the sample-size check, every observation of
\* a survey-type pillar that has no sample_n and whose source is neither
\* OECD nor Eurobarometer has a sample_size flag, however many such
\* observations the corpus holds.
C22_MissingSampleAlwaysFlagged ==
    HasRun("sample_size") =>
        \A i \in MissingSampleExpected(corpus) :
            SampleSeverities(sweep.all_flags, i) # {}

-----------------------------------------------------------------------------
(* The list of checks and the report *)

\* The names of a list that are in the registry, and those that are not.
RegisteredOf(checks) == SelectSeq(checks, LAMBDA n : n \in CHECKS)

UnknownOf(checks) == SelectSeq(checks, LAMBDA n : n \notin CHECKS)

\* The flags the registered checks of a list find, one run for each time a
\* check is named.
RECURSIVE FlagsOfEveryRun(_, _)
FlagsOfEveryRun(checks, corp) ==
    IF checks = << >> THEN << >>
    ELSE (IF Head(checks) \in CHECKS
          THEN CheckFlags(Head(checks), corp) ELSE << >>)
         \o FlagsOfEveryRun(Tail(checks), corp)

\* A sweep that has returned printed the warning for exactly the unknown
\* names of its list, ran every registered check of the list (its count is
\* in the report and its flags are among the flags found) and returned a
\* report.
UnknownNamesWereSkipped ==
    sweep.outcome = "reported" =>
        /\ sweep.warned = UnknownOf(sweep.checks)
        /\ sweep.report # Null
        /\ \A k \in 1..Len(sweep.checks) :
              sweep.checks[k] \in CHECKS =>
                  sweep.checks[k] \in DOMAIN The(sweep.report).by_type
        /\ sweep.all_flags = FlagsOfEveryRun(sweep.checks, corpus)

\* C23: a name that is not in the registry is skipped with a warning and
\* is not fatal: every sweep that was called returns its report, whatever
\* names its list holds, and when it has returned the warning was printed
\* for the unknown names only and every registered check of the list has
\* run.
C23_UnknownCheckIsSkipped ==
    /\ []UnknownNamesWereSkipped
    /\ (sweep.pc = "running") ~> (sweep.outcome = "reported")

\* A sweep called with an unknown name before the year-over-year check
\* has returned: it warned once and reports the flags of the
\* year-over-year check.
C23_Witness ==
    /\ sweep.outcome = "reported"
    /\ sweep.checks = <<"unknown", "yoy_anomalies">>
    /\ sweep.warned = <<"unknown">>
    /\ The(sweep.report).total_flags > 0
    /\ The(sweep.report).by_type["yoy_anomalies"] > 0

\* The flags of a list that have severity error.
ErrorFlags(flags) == {k \in 1..Len(flags) : flags[k].severity = "error"}

\* C24: when the sweep has completed, the exit code of the command is
\* non-zero if the sweep found a flag of severity error, with --dry-run
\* (save_to_db false) as well as without, and zero if it found none.
C24_ExitCodeTellsErrors ==
    sweep.outcome = "reported" =>
        /\ sweep.exit # Null
        /\ ErrorFlags(sweep.all_flags) # {} => The(sweep.exit) # 0
        /\ ErrorFlags(sweep.all_flags) = {} => The(sweep.exit) = 0

\* A dry run that found an error flag and a warning flag has exited with 1.
C24_Witness ==
    /\ sweep.outcome = "reported"
    /\ ~sweep.save_to_db
    /\ ErrorFlags(sweep.all_flags) # {}
    /\ ErrorFlags(sweep.all_flags) # 1..Len(sweep.all_flags)
    /\ sweep.exit = Some(1)

\* The sum of the counts of a by_type map.
ByTypeTotal(by_type) == SumOver(DOMAIN by_type, by_type)

\* C28: for every list of check names, repeated and unknown names
\* included, the report run_sweep returns has total_flags = errors +
\* warnings, total_flags = the sum of its by_type counts, and a by_type
\* entry for exactly the registered checks of the list.
C28_ReportIsConsistent ==
    sweep.outcome = "reported" =>
        LET rep == The(sweep.report)
        IN  /\ rep.total_flags = rep.errors + rep.warnings
            /\ rep.total_flags = ByTypeTotal(rep.by_type)
            /\ DOMAIN rep.by_type = Range(RegisteredOf(sweep.checks))

-----------------------------------------------------------------------------
(* Media provenance *)

\* The sources that contribute to the blended score of a country-year: the
\* sources present that carry a nominal weight.
Contributors(corp, key) ==
    {o.source : o \in {p \in MediaPresent(corp, key) :
                          MediaWeight(p.source) > 0}}

\* C25: every media result of a run, which is written as the row's
\* sources_used entry "media" and handed to the tier classifier, lists
\* exactly the sources that contributed to the blended score: a source
\* without a nominal weight is not in it.
C25_MediaProvenanceListsContributors ==
    RunHasRead(1, {"media"}) =>
        \A i \in 1..Len(results[1]) :
            Range(results[1][i].sources)
                = Contributors(snapshot[1],
                               <<results[1][i].iso3, results[1][i].year>>)

-----------------------------------------------------------------------------
(* Ingestion *)

\* A score is within [0, 100].
ScoreInRange(obs) ==
    /\ 0 <= The(obs.score_0_100)
    /\ The(obs.score_0_100) <= 10000

\* C26: an observation with a score below 0 or above 100 is rejected at
\* ingestion and is never stored: an ingestion that loaded its batch had
\* no such observation in it, one that raised wrote nothing, and every
\* observation of the table has a score within [0, 100]; the scores 0 and
\* 100 of a loaded batch are stored as they are.
C26_IngestionRejectsOutOfRange ==
    /\ ingest.outcome = "loaded" =>
          /\ \A i \in 1..Len(ingest.batch) : ScoreInRange(ingest.batch[i])
          /\ corpus = load_to_database(ingest.before, ingest.batch)
    /\ ingest.outcome = "raised" => corpus = ingest.before
    /\ \A i \in 1..Len(corpus) : ScoreInRange(corpus[i])

-----------------------------------------------------------------------------
(* The frame of a run *)

\* The columns of a pillar at a key of the table, NULL when the table has
\* no row there.
ColumnsAt(tbl, key, pillar) ==
    IF key \in DOMAIN tbl THEN PillarView(tbl[key], pillar)
    ELSE [score |-> Null, tier |-> Null, ci_lower |-> Null,
          ci_upper |-> Null, sources |-> Null]

\* Every aggregated pillar a row has a score for has its entry in
\* sources_used, and sources_used has no entry for another aggregated
\* pillar.
OneEntryPerPillar(row) ==
    WrittenPillars(row) \cap AggregatedPillars =
        {p \in AggregatedPillars : PillarView(row, p).sources # Null}

\* A step changes the table only by the commit of a run, and the commit
\* of a run for pillar P keeps every row and leaves the columns and the
\* sources_used entry of every other pillar as they were.
CommitKeepsOtherPillars ==
    /\ table' # table =>
          \E r \in RunIds : pc[r] = "writing" /\ outcome'[r] = "committed"
    /\ \A r \in RunIds :
          (pc[r] = "writing" /\ outcome'[r] = "committed") =>
              /\ DOMAIN table \subseteq DOMAIN table'
              /\ \A key \in DOMAIN table' :
                    \A p \in Pillars \ {job[r].pillar} :
                        ColumnsAt(table', key, p) = ColumnsAt(table, key, p)

\* C27: an aggregation run for pillar P changes, in every row, only P's
\* score, tier, bounds and sources_used entry (and computed_at): the
\* columns and sources_used entries of the other pillars, governance
\* included, are unchanged; so whatever the order of the runs, the
\* sources_used of a row holds one entry for each aggregated pillar the
\* row has a score for.
C27_PillarFrame ==
    /\ [][CommitKeepsOtherPillars]_vars
    /\ [](\A key \in DOMAIN table : OneEntryPerPillar(table[key]))

\* The three pillars were aggregated into a row that had governance
\* columns: the row has the four scores and four sources_used entries, the
\* governance ones as they were.
C27_Witness ==
    /\ outcome[1] = "committed"
    /\ <<"XAA", YearNew>> \in DOMAIN table
    /\ WrittenPillars(table[<<"XAA", YearNew>>]) = Pillars
    /\ PillarView(table[<<"XAA", YearNew>>], "governance").sources
          = Some(<<"CPI", "WGI">>)
    /\ PillarView(table[<<"XAA", YearNew>>], "media").sources
          = Some(<<"Reuters_DNR">>)

-----------------------------------------------------------------------------
(* The entry points *)

\* C29: a run of a standalone entry point (aggregate_survey.py or
\* aggregate_media.py) computes the results that aggregate_pillars.py
\* computes from the same corpus and reference year (same winner or blend,
\* score, tier, bounds and provenance), and its commit leaves the table
\* that the run of aggregate_pillars.py leaves from the same table, rows
\* that existed before and their sources_used maps included.
C29_EntryPointsAgree ==
    (job[1].standalone /\ outcome[1] # "none") =>
        /\ results[1] = ComputeResults(snapshot[1], job[1].pillar,
                                       CurrentYear(job[1].now))
        /\ outcome[1] = "committed" =>
              table = RunAlone(tableAtStart[1], snapshot[1], job[1])

\* A standalone survey run has committed over a corpus that holds a
\* different-scale source and an unranked source for the country-year of
\* a row that existed, and a standalone media run over a weighted and an
\* unweighted source.
C29_Witness ==
    /\ job[1].standalone
    /\ outcome[1] = "committed"
    /\ <<"XAA", YearNew>> \in DOMAIN tableAtStart[1]
    /\ tableAtStart[1][<<"XAA", YearNew>>].sources_used # Null
    /\ \/ /\ job[1].pillar = "institutional"
          /\ {"ESS", "Eurobarometer"} \subseteq
                {snapshot[1][i].source : i \in 1..Len(snapshot[1])}
          /\ results[1] # << >>
       \/ /\ job[1].pillar = "media"
          /\ \E i \in 1..Len(results[1]) :
                results[1][i].sources = <<"Afrobarometer", "Reuters_DNR">>

-----------------------------------------------------------------------------
(* Row locks of concurrent runs *)

\* Run r is at a statement that waits for a row that run o has upserted
\* and not yet committed.
WaitsFor(r, o) ==
    /\ pc[r] = "writing"
    /\ nextIdx[r] <= Len(results[r])
    /\ <<results[r][nextIdx[r]].iso3, results[r][nextIdx[r]].year>>
          \in DOMAIN txn[o]

\* C30: a survey-pillar run and a media-pillar run that upsert overlapping
\* rows in transactions of their own, each holding its row locks until its
\* commit, never wait for each other at the same time.
C30_NoCircularWait ==
    \A r, o \in RunIds :
        (r # o /\ job[r].pillar \in SurveyPillars /\ job[o].pillar = "media")
            => ~(WaitsFor(r, o) /\ WaitsFor(o, r))

=============================================================================






